---- MODULE Spec2Model ----
(***************************************************************************)
(* PivotScale: pivoting-based k-clique counting on a directionalized       *)
(* graph.  The module models                                               *)
(*   - the ordering step (Ordering::Directionalize, CoreApprox and the     *)
(*     builder's DirectGraphByFunc),                                       *)
(*   - the backtracking induced subgraph (SubGraph, GroupedStack),         *)
(*   - the combination cache (CombCache),                                  *)
(*   - the two recursions (PivotRecurse of pivotscale.cc and of            *)
(*     pivotscale-sweep.cc) and their root loops (PivotCount).             *)
(* C++ vectors indexed by a local id are functions over 0..size-1; C++     *)
(* vectors that are walked or appended to are sequences, so position j of  *)
(* the code (0-based) is element j+1 here.                                 *)
(***************************************************************************)
EXTENDS Integers, Sequences, FiniteSets, TLC

\* ---------------------------------------------------------------- bounds
\* number of vertices of the input graphs of Spec
MaxNodes == 5
\* number of out-neighbours of the source vertex in the DAGs of SpecDag
MaxSub == 4
\* largest clique size asked for (-c K)
MaxK == 4

\* ------------------------------------------------------- generic helpers
Min(a, b) == IF a < b THEN a ELSE b

Max(a, b) == IF a > b THEN a ELSE b

Range(s) == {s[i] : i \in DOMAIN s}

\* the empty C++ vector indexed by id
EmptyVec == [i \in {} |-> 0]

\* size of a vector indexed by id
Size(vec) == Cardinality(DOMAIN vec)

\* a resize that grows the vector and never shrinks it
Resize_NeverShrinks(vec, n, dflt) ==
  [i \in 0..(Max(n, Size(vec)) - 1) |->
     IF i \in DOMAIN vec THEN vec[i] ELSE dflt]

\* std::vector::resize(n) with value-initialised new elements
Resize(vec, n, dflt) ==
  [i \in 0..(n - 1) |-> IF i \in DOMAIN vec THEN vec[i] ELSE dflt]

\* std::sort of a set of distinct vertex ids: the ascending sequence
RECURSIVE SortedSeq(_)
SortedSeq(S) ==
  IF S = {} THEN <<>>
  ELSE LET m == CHOOSE x \in S : \A y \in S : x <= y
       IN <<m>> \o SortedSeq(S \ {m})

\* ------------------------------------------------- undirected input graph
\* A graph is [n |-> number of vertices, e |-> set of edges {u, v}, u # v];
\* this is what Builder::MakeGraph hands over for an undirected input:
\* symmetric, no self-loops, no duplicates, adjacency sorted ascending.
Nodes(G) == 0..(G.n - 1)

AllEdges(n) == {{u, v} : u, v \in 0..(n - 1)} \ {{u} : u \in 0..(n - 1)}

NeighSet(G, u) == {v \in Nodes(G) : {u, v} \in G.e}

\* g.out_neigh(u) of the undirected CSR graph
out_neigh(G, u) == SortedSeq(NeighSet(G, u))

\* g.out_degree(u) of the undirected CSR graph
out_degree(G, u) == Cardinality(NeighSet(G, u))

\* g.num_edges_directed(): every undirected edge counted on both endpoints
num_edges_directed(G) == 2 * Cardinality(G.e)

\* ------------------------------------------------------------- ordering
\* GreaterDegreeOrID without the comparison of the ids
GreaterDegreeOrID_NoTieBreak(G, u, v) ==
  out_degree(G, v) > out_degree(G, u)

\* BuilderBase::GreaterDegreeOrID
GreaterDegreeOrID(G, u, v) ==
  \/ out_degree(G, v) > out_degree(G, u)
  \/ (out_degree(G, v) = out_degree(G, u) /\ v > u)

\* BuilderBase::DirectGraphByFunc: keep v in out_neigh(u) iff filter(u, v),
\* then sort every adjacency.  The filter is given as the set of the pairs
\* <<u, v>> it accepts.  A DAG is a function vertex -> ascending sequence of
\* out-neighbours.
DirectGraphByFunc(G, filter) ==
  [u \in Nodes(G) |-> SortedSeq({v \in NeighSet(G, u) : <<u, v>> \in filter})]

\* DirectGraphDegree that compares the ids only
DirectGraphDegree_IdOnly(G) ==
  LET compare_degrees ==
        {p \in Nodes(G) \X Nodes(G) : p[2] > p[1]}
  IN DirectGraphByFunc(G, compare_degrees)

\* BuilderBase::DirectGraphDegree
DirectGraphDegree(G) ==
  LET compare_degrees ==
        {p \in Nodes(G) \X Nodes(G) : GreaterDegreeOrID(G, p[1], p[2])}
  IN DirectGraphByFunc(G, compare_degrees)

\* DirectGraphCore without the tie-break among vertices of equal rank
DirectGraphCore_NoTieBreak(G, ranking) ==
  LET compare_rankings ==
        {p \in Nodes(G) \X Nodes(G) : ranking[p[1]] < ranking[p[2]]}
  IN DirectGraphByFunc(G, compare_rankings)

\* DirectGraphCore that orders the vertices of equal rank by id only
DirectGraphCore_IdTieBreak(G, ranking) ==
  LET compare_rankings ==
        {p \in Nodes(G) \X Nodes(G) :
           \/ ranking[p[1]] < ranking[p[2]]
           \/ (ranking[p[1]] = ranking[p[2]] /\ p[2] > p[1])}
  IN DirectGraphByFunc(G, compare_rankings)

\* BuilderBase::DirectGraphCore
DirectGraphCore(G, ranking) ==
  LET compare_rankings ==
        {p \in Nodes(G) \X Nodes(G) :
           \/ ranking[p[1]] < ranking[p[2]]
           \/ (ranking[p[1]] = ranking[p[2]]
               /\ GreaterDegreeOrID(G, p[1], p[2]))}
  IN DirectGraphByFunc(G, compare_rankings)

\* Ordering::CoreIsAdvantageous, biggest_id: std::ranges::max over the
\* vertex ids by degree, the leftmost of the vertices of largest degree
biggest_id(G) ==
  CHOOSE a \in Nodes(G) :
    /\ \A b \in Nodes(G) : out_degree(G, b) <= out_degree(G, a)
    /\ \A b \in Nodes(G) : b < a => out_degree(G, b) < out_degree(G, a)

\* static_cast<NodeID>((1 + epsilon) * avg_deg) with epsilon = -0.5, the
\* only value Directionalize passes: half the average degree, truncated.
DegThresh(active_degree_total, num_remaining) ==
  active_degree_total \div (2 * num_remaining)

\* One iteration of the while loop of Ordering::CoreApprox, all threads
\* taken together (the iteration is deterministic: every shared read is
\* separated from the writes by a barrier).  st is the record of the shared
\* variables and of the union of the threads' remaining lists.
CoreApproxIter(G, st) ==
  LET deg_thresh0 == DegThresh(st.active_degree_total, st.num_remaining)
  IN IF st.level = 0
     THEN LET ranked == {u \in Nodes(G) : out_degree(G, u) <= deg_thresh0}
              keep == Nodes(G) \ ranked
              \* curr_degree[v]-- for every ranked neighbour of a kept v
              cd == [v \in Nodes(G) |->
                       IF v \in keep
                       THEN st.curr_degree[v]
                            - Cardinality(NeighSet(G, v) \cap ranked)
                       ELSE st.curr_degree[v]]
              edges_removed ==
                LET RECURSIVE Sum(_)
                    Sum(S) == IF S = {} THEN 0
                              ELSE LET u == CHOOSE x \in S : TRUE
                                   IN Cardinality(NeighSet(G, u) \cap keep)
                                      + st.curr_degree[u] + Sum(S \ {u})
                IN Sum(ranked)
          IN [rankings |-> [u \in Nodes(G) |->
                              IF u \in ranked THEN 0 ELSE st.rankings[u]],
              curr_degree |-> cd,
              active_degree_total |-> st.active_degree_total - edges_removed,
              num_remaining |-> Cardinality(keep),
              remaining |-> keep,
              level |-> 1]
     ELSE LET min_deg_active ==
                LET RECURSIVE MinDeg(_, _)
                    MinDeg(S, m) ==
                      IF S = {} THEN m
                      ELSE LET u == CHOOSE x \in S : TRUE
                           IN MinDeg(S \ {u}, Min(m, st.curr_degree[u]))
                IN MinDeg(st.remaining, G.n)
              deg_thresh == IF deg_thresh0 < min_deg_active
                            THEN min_deg_active ELSE deg_thresh0
              removed == {u \in st.remaining : st.curr_degree[u] <= deg_thresh}
              keep == st.remaining \ removed
              \* rankings[v] == -1 holds exactly for the kept vertices
              cd == [v \in Nodes(G) |->
                       IF v \in keep
                       THEN st.curr_degree[v]
                            - Cardinality(NeighSet(G, v) \cap removed)
                       ELSE st.curr_degree[v]]
              edges_removed ==
                LET RECURSIVE Sum(_)
                    Sum(S) == IF S = {} THEN 0
                              ELSE LET u == CHOOSE x \in S : TRUE
                                   IN Cardinality(NeighSet(G, u) \cap keep)
                                      + st.curr_degree[u] + Sum(S \ {u})
                IN Sum(removed)
          IN [rankings |-> [u \in Nodes(G) |->
                              IF u \in removed THEN st.level
                              ELSE st.rankings[u]],
              curr_degree |-> cd,
              active_degree_total |-> st.active_degree_total - edges_removed,
              num_remaining |-> Cardinality(keep),
              remaining |-> keep,
              level |-> st.level + 1]

RECURSIVE CoreApproxLoop(_, _)
CoreApproxLoop(G, st) ==
  IF st.num_remaining > 0 THEN CoreApproxLoop(G, CoreApproxIter(G, st))
  ELSE st.rankings

\* Ordering::CoreApprox: the ranking vector it returns
CoreApprox(G) ==
  CoreApproxLoop(G, [rankings |-> [u \in Nodes(G) |-> -1],
                     curr_degree |-> [u \in Nodes(G) |-> out_degree(G, u)],
                     active_degree_total |-> num_edges_directed(G),
                     num_remaining |-> G.n,
                     remaining |-> {},
                     level |-> 0])

\* ------------------------------------------------------ count arithmetic
\* A natural number is the sequence of its digits in base 2^16, the least
\* significant first, without leading zero digit (zero is <<>>).
Base == 2 ^ 16

Zero == <<>>

One == <<1>>

RECURSIVE Norm(_)
Norm(a) ==
  IF a # <<>> /\ a[Len(a)] = 0 THEN Norm(SubSeq(a, 1, Len(a) - 1)) ELSE a

RECURSIVE NatOfInt(_)
NatOfInt(x) == IF x = 0 THEN <<>> ELSE <<x % Base>> \o NatOfInt(x \div Base)

\* the integer a stands for, for a small a
RECURSIVE IntOf(_)
IntOf(a) == IF a = <<>> THEN 0 ELSE Head(a) + Base * IntOf(Tail(a))

\* digit i of a, zero above the most significant one
Digit(a, i) == IF i <= Len(a) THEN a[i] ELSE 0

\* a + b + carry: sum holds the digits below digit i
RECURSIVE NatAddLoop(_, _, _, _, _)
NatAddLoop(a, b, i, carry, sum) ==
  IF i > Len(a) /\ i > Len(b) THEN sum \o NatOfInt(carry)
  ELSE NatAddLoop(a, b, i + 1,
                  (Digit(a, i) + Digit(b, i) + carry) \div Base,
                  Append(sum, (Digit(a, i) + Digit(b, i) + carry) % Base))

NatAdd(a, b) == NatAddLoop(a, b, 1, 0, <<>>)

\* a * m + carry, for a small m: prod holds the digits below digit i
RECURSIVE NatMulLoop(_, _, _, _, _)
NatMulLoop(a, m, i, carry, prod) ==
  IF i > Len(a) THEN prod \o NatOfInt(carry)
  ELSE NatMulLoop(a, m, i + 1, (a[i] * m + carry) \div Base,
                  Append(prod, (a[i] * m + carry) % Base))

NatMul(a, m) == Norm(NatMulLoop(a, m, 1, 0, <<>>))

\* the quotient of a by a small d, long division from digit i downwards:
\* quot holds the digits above digit i, rem is the running remainder
RECURSIVE NatDivLoop(_, _, _, _, _)
NatDivLoop(a, d, i, rem, quot) ==
  IF i = 0 THEN quot
  ELSE NatDivLoop(a, d, i - 1, (rem * Base + a[i]) % d,
                  <<(rem * Base + a[i]) \div d>> \o quot)

NatDiv(a, d) == Norm(NatDivLoop(a, d, Len(a), 0, <<>>))

\* count_t: uint64_t (the build without USE_128)
CountBits == 64

\* conversion to count_t: the value modulo 2^CountBits
ToCount(a) == Norm(SubSeq(a, 1, Min(Len(a), CountBits \div 16)))

\* a fits count_t
Representable(a) == Len(a) <= CountBits \div 16

\* count_t operator+
count_add(a, b) == ToCount(NatAdd(a, b))

\* count_t operator*, by a small factor
count_mul(a, m) == ToCount(NatMul(a, m))

\* count_t operator/, by a small divisor
count_div(a, d) == NatDiv(a, d)

\* ---------------------------------------------------- combination cache
kNumPrecompute == 100

\* CombCache::compute, the body of the loop: result * (n - (k - i)) / i
computeIter(n, k, i, result) == count_div(count_mul(result, n - (k - i)), i)

\* CombCache::compute, the multiplicative fallback
RECURSIVE computeLoop(_, _, _, _)
computeLoop(n, k, i, result) ==
  IF i <= k
  THEN computeLoop(n, k, i + 1, computeIter(n, k, i, result))
  ELSE result

compute(n, k) ==
  IF k > n THEN Zero
  ELSE IF k = 0 \/ k = n THEN One
  ELSE computeLoop(n, Min(k, n - k), 1, One)

\* the k loop of the constructor with memo[n-1][k-1] added to itself
memoFill_SameColumn(prev, n) ==
  [j \in 1..(n + 1) |->
     IF j - 1 = 0 \/ j - 1 = n THEN One ELSE count_add(prev[j - 1], prev[j - 1])]

\* CombCache::CombCache, the k loop on row n: the row memo[n][0..n] from
\* prev, the row memo[n-1] (memo[n][k] is element k + 1 of the row)
memoFill(prev, n) ==
  [j \in 1..(n + 1) |->
     IF j - 1 = 0 \/ j - 1 = n THEN One ELSE count_add(prev[j - 1], prev[j])]

\* memo[n][k] after CombCache::CombCache, entry by entry.  The cache is a
\* global object, so the entries the constructor does not write (k > n)
\* are zero.
RECURSIVE memo(_, _)
memo(n, k) ==
  IF k > n THEN Zero
  ELSE IF k = 0 \/ k = n THEN One
  ELSE count_add(memo(n - 1, k - 1), memo(n - 1, k))

\* CombCache::operator()
n_choose_k(n, k) ==
  IF n < kNumPrecompute /\ k < kNumPrecompute THEN memo(n, k)
  ELSE compute(n, k)

\* --------------------------------------------------------- grouped stack
\* GroupedStack<NodeID>: elems_ and starts_ (0-based offsets into elems_);
\* capacity_ is elems_.capacity(), the number of elements the backing
\* array of elems_ holds before a push has to reallocate it
EmptyStack == [elems_ |-> <<>>, starts_ |-> <<>>, capacity_ |-> 0]

\* GroupedStack::reserve: elems_.reserve(num_elems)
reserve(gs, num_elems) ==
  [gs EXCEPT !.capacity_ = Max(@, num_elems)]

create_new_frame(gs) ==
  [gs EXCEPT !.starts_ = Append(@, Len(gs.elems_))]

\* GroupedStack::push_back: a push into a full backing array reallocates it
\* (the new capacity is the doubled one, as libstdc++ and libc++ grow)
push_back(gs, new_elem) ==
  [gs EXCEPT !.elems_ = Append(@, new_elem),
             !.capacity_ = IF Len(gs.elems_) < @ THEN @ ELSE Max(1, 2 * @)]

last_frame_iter(gs) ==
  SubSeq(gs.elems_, gs.starts_[Len(gs.starts_)] + 1, Len(gs.elems_))

pop_frame(gs) ==
  LET new_size == gs.starts_[Len(gs.starts_)]
  IN [elems_ |-> SubSeq(gs.elems_, 1, new_size),
      starts_ |-> SubSeq(gs.starts_, 1, Len(gs.starts_) - 1),
      capacity_ |-> gs.capacity_]

\* GroupedStack::clear: both vectors are emptied, the capacity stays
clear(gs) == [gs EXCEPT !.elems_ = <<>>, !.starts_ = <<>>]

\* -------------------------------------------------------------- SubGraph
\* The state of a default-constructed SubGraph
EmptySubGraph ==
  [active_ |-> EmptyVec, active_list_ |-> <<>>, adj_list_ |-> EmptyVec,
   active_tails_ |-> EmptyVec, dropped_verts_ |-> EmptyStack,
   pivot_non_neighs_ |-> EmptyStack]

\* position of v in the ascending sequence s (the remapper's value), 0-based
Remap(s, v) == (CHOOSE i \in DOMAIN s : s[i] = v) - 1

\* BuildAdj that appends the edge to the adjacency of v_r only
RECURSIVE BuildAdj_OneDirection(_, _, _, _, _)
BuildAdj_OneDirection(dag, u, adj, vi, wi) ==
  IF vi > Len(dag[u]) THEN adj
  ELSE LET v == dag[u][vi]
           v_r == Remap(dag[u], v)
       IN IF wi > Len(dag[v]) THEN BuildAdj_OneDirection(dag, u, adj, vi + 1, 1)
          ELSE LET w == dag[v][wi]
               IN IF w \in Range(dag[u])
                  THEN LET w_r == Remap(dag[u], w)
                           a1 == [adj EXCEPT ![v_r] = Append(@, w_r)]
                       IN BuildAdj_OneDirection(dag, u, a1, vi, wi + 1)
                  ELSE BuildAdj_OneDirection(dag, u, adj, vi, wi + 1)

\* second loop nest of InduceFromDAG: walk v over out_neigh(u) (position vi)
\* and w over out_neigh(v) (position wi), appending both directions
RECURSIVE BuildAdj(_, _, _, _, _)
BuildAdj(dag, u, adj, vi, wi) ==
  IF vi > Len(dag[u]) THEN adj
  ELSE LET v == dag[u][vi]
           v_r == Remap(dag[u], v)
       IN IF wi > Len(dag[v]) THEN BuildAdj(dag, u, adj, vi + 1, 1)
          ELSE LET w == dag[v][wi]
               IN IF w \in Range(dag[u])
                  THEN LET w_r == Remap(dag[u], w)
                           a1 == [adj EXCEPT ![v_r] = Append(@, w_r)]
                           a2 == [a1 EXCEPT ![w_r] = Append(@, v_r)]
                       IN BuildAdj(dag, u, a2, vi, wi + 1)
                  ELSE BuildAdj(dag, u, adj, vi, wi + 1)

\* InduceFromDAG without pivot_non_neighs_.reserve(num_orig_nodes)
InduceFromDAG_NoReserve(sg, dag, u) ==
  LET num_orig_nodes == Len(dag[u])
      \* adj_list_.resize, then adj_list_[v_r].clear() for every v_r
      adj0 == [v_r \in DOMAIN Resize(sg.adj_list_, num_orig_nodes, <<>>)
                 |-> <<>>]
      adj == BuildAdj(dag, u, adj0, 1, 1)
      tails0 == Resize(sg.active_tails_, num_orig_nodes, 0)
  IN [active_ |-> [v_r \in 0..(num_orig_nodes - 1) |-> TRUE],
      active_list_ |-> [i \in 1..num_orig_nodes |-> i - 1],
      adj_list_ |-> adj,
      active_tails_ |-> [v_r \in DOMAIN tails0 |-> Len(adj[v_r])],
      dropped_verts_ |-> clear(sg.dropped_verts_),
      pivot_non_neighs_ |-> clear(sg.pivot_non_neighs_)]

\* SubGraph::InduceFromDAG
InduceFromDAG(sg, dag, u) ==
  LET num_orig_nodes == Len(dag[u])
      \* adj_list_.resize, then adj_list_[v_r].clear() for every v_r
      adj0 == [v_r \in DOMAIN Resize(sg.adj_list_, num_orig_nodes, <<>>)
                 |-> <<>>]
      adj == BuildAdj(dag, u, adj0, 1, 1)
      tails0 == Resize(sg.active_tails_, num_orig_nodes, 0)
  IN [active_ |-> [v_r \in 0..(num_orig_nodes - 1) |-> TRUE],
      active_list_ |-> [i \in 1..num_orig_nodes |-> i - 1],
      adj_list_ |-> adj,
      active_tails_ |-> [v_r \in DOMAIN tails0 |-> Len(adj[v_r])],
      dropped_verts_ |-> clear(sg.dropped_verts_),
      pivot_non_neighs_ |-> reserve(clear(sg.pivot_non_neighs_),
                                    num_orig_nodes)]

\* SubGraph::NumActive
NumActive(sg) == Len(sg.active_list_)

\* SubGraph::Neighs: the active prefix of the adjacency of u_r
Neighs(sg, u_r) == SubSeq(sg.adj_list_[u_r], 1, sg.active_tails_[u_r])

\* the loop of FindPivot with >= in place of >: the last vertex of
\* active_list_ with the largest tail
RECURSIVE FindPivotLoop_LastMax(_, _, _)
FindPivotLoop_LastMax(sg, i, max_v_r) ==
  IF i > Len(sg.active_list_) THEN max_v_r
  ELSE LET n_r == sg.active_list_[i]
       IN FindPivotLoop_LastMax(sg, i + 1,
            IF sg.active_tails_[n_r] >= sg.active_tails_[max_v_r]
            THEN n_r ELSE max_v_r)

\* SubGraph::FindPivot: first vertex of active_list_ with the largest tail
RECURSIVE FindPivotLoop(_, _, _)
FindPivotLoop(sg, i, max_v_r) ==
  IF i > Len(sg.active_list_) THEN max_v_r
  ELSE LET n_r == sg.active_list_[i]
       IN FindPivotLoop(sg, i + 1,
            IF sg.active_tails_[n_r] > sg.active_tails_[max_v_r]
            THEN n_r ELSE max_v_r)

FindPivot(sg) == FindPivotLoop(sg, 1, sg.active_list_[1])

\* active_[x] = val for every x of the sequence s, in order
RECURSIVE SetAll(_, _, _, _)
SetAll(act, s, i, val) ==
  IF i > Len(s) THEN act
  ELSE SetAll([act EXCEPT ![s[i]] = val], s, i + 1, val)

\* the second loop of ActiveUnreachableFromPivot without the else branch:
\* the neighbours of the pivot stay cleared in active_
RECURSIVE UnreachLoop_NoRestore(_, _)
UnreachLoop_NoRestore(sg, i) ==
  IF i > Len(sg.active_list_) THEN sg
  ELSE LET n_r == sg.active_list_[i]
       IN IF sg.active_[n_r]
          THEN UnreachLoop_NoRestore([sg EXCEPT !.pivot_non_neighs_ =
                                        push_back(@, n_r)], i + 1)
          ELSE UnreachLoop_NoRestore(sg, i + 1)

\* second loop of ActiveUnreachableFromPivot: the set difference
RECURSIVE UnreachLoop(_, _)
UnreachLoop(sg, i) ==
  IF i > Len(sg.active_list_) THEN sg
  ELSE LET n_r == sg.active_list_[i]
       IN IF sg.active_[n_r]
          THEN UnreachLoop([sg EXCEPT !.pivot_non_neighs_ =
                                        push_back(@, n_r)], i + 1)
          ELSE UnreachLoop([sg EXCEPT !.active_[n_r] = TRUE], i + 1)

\* ActiveUnreachableFromPivot that marks the pivot itself as a neighbour
ActiveUnreachableFromPivot_DropsPivot(sg, u_r) ==
  LET s1 == [sg EXCEPT !.pivot_non_neighs_ = create_new_frame(@)]
      s2 == [s1 EXCEPT !.active_ =
               SetAll(@, Append(Neighs(sg, u_r), u_r), 1, FALSE)]
  IN UnreachLoop(s2, 1)

\* SubGraph::ActiveUnreachableFromPivot: the SubGraph after the call; the
\* span it returns is last_frame_iter of pivot_non_neighs_
ActiveUnreachableFromPivot(sg, u_r) ==
  LET s1 == [sg EXCEPT !.pivot_non_neighs_ = create_new_frame(@)]
      s2 == [s1 EXCEPT !.active_ = SetAll(@, Neighs(sg, u_r), 1, FALSE)]
  IN UnreachLoop(s2, 1)

\* the exclusion loop with n_r > u_r in place of n_r < u_r
RECURSIVE Exclude_LargerIds(_, _, _, _)
Exclude_LargerIds(act, excl, i, u_r) ==
  IF i > Len(excl) THEN act
  ELSE Exclude_LargerIds(
         IF excl[i] > u_r THEN [act EXCEPT ![excl[i]] = FALSE] ELSE act,
         excl, i + 1, u_r)

\* for (n_r : excl) if (n_r < u_r) active_[n_r] = false
RECURSIVE Exclude(_, _, _, _)
Exclude(act, excl, i, u_r) ==
  IF i > Len(excl) THEN act
  ELSE Exclude(IF excl[i] < u_r THEN [act EXCEPT ![excl[i]] = FALSE] ELSE act,
               excl, i + 1, u_r)

\* while ((new_tail > j) && (!active_[tail_v_r])) new_tail--
RECURSIVE ScanBack(_, _, _, _)
ScanBack(act, adj, new_tail, j) ==
  IF new_tail > j /\ ~act[adj[new_tail + 1]]
  THEN ScanBack(act, adj, new_tail - 1, j)
  ELSE new_tail

\* the j loop of InduceFromSelfMutate on one kept vertex: re-partition its
\* adjacency; returns the new adjacency and the new tail
RECURSIVE Compact(_, _, _, _)
Compact(act, adj, tail, j) ==
  IF j >= tail THEN [adj |-> adj, tail |-> tail]
  ELSE IF act[adj[j + 1]] THEN Compact(act, adj, tail, j + 1)
  ELSE LET new_tail == ScanBack(act, adj, tail - 1, j)
           swapped == IF new_tail > j
                      THEN [adj EXCEPT ![j + 1] = adj[new_tail + 1],
                                       ![new_tail + 1] = adj[j + 1]]
                      ELSE adj
       IN Compact(act, swapped, new_tail, j + 1)

\* the i loop of InduceFromSelfMutate without its else branch: no vertex
\* leaves active_list_
InduceLoop_NoDrop(sg, i) == sg

\* the i loop of InduceFromSelfMutate over active_list_
RECURSIVE InduceLoop(_, _)
InduceLoop(sg, i) ==
  IF i >= Len(sg.active_list_) THEN sg
  ELSE LET n_r == sg.active_list_[i + 1]
       IN IF sg.active_[n_r]
          THEN LET c == Compact(sg.active_, sg.adj_list_[n_r],
                                sg.active_tails_[n_r], 0)
               IN InduceLoop([sg EXCEPT !.adj_list_[n_r] = c.adj,
                                        !.active_tails_[n_r] = c.tail], i + 1)
          ELSE LET last == Len(sg.active_list_)
                   \* std::swap(active_list_[i], active_list_.back())
                   sw == [sg.active_list_ EXCEPT ![i + 1] = sg.active_list_[last],
                                                 ![last] = n_r]
               IN InduceLoop([sg EXCEPT
                                !.active_list_ = SubSeq(sw, 1, last - 1),
                                !.dropped_verts_ = push_back(@, n_r)], i)

\* InduceFromSelfMutate that subtracts the whole exclusion list, whatever the
\* ids
InduceFromSelfMutate_ExcludesAll(sg, u_r, excl) ==
  LET a1 == SetAll(sg.active_, sg.active_list_, 1, FALSE)
      a2 == SetAll(a1, Neighs(sg, u_r), 1, TRUE)
      a3 == SetAll(a2, excl, 1, FALSE)
      s1 == [sg EXCEPT !.active_ = a3,
                       !.dropped_verts_ = create_new_frame(@)]
  IN InduceLoop(s1, 0)

\* SubGraph::InduceFromSelfMutate
InduceFromSelfMutate(sg, u_r, excl) ==
  LET a1 == SetAll(sg.active_, sg.active_list_, 1, FALSE)
      a2 == SetAll(a1, Neighs(sg, u_r), 1, TRUE)
      a3 == Exclude(a2, excl, 1, u_r)
      s1 == [sg EXCEPT !.active_ = a3,
                       !.dropped_verts_ = create_new_frame(@)]
  IN InduceLoop(s1, 0)

\* the while loop of UndoSelfMutate without the test of active_: the tail
\* runs to the end of the adjacency
ExtendTail_ToEnd(act, adj, new_tail) == Len(adj)

\* the while loop of UndoSelfMutate on one vertex: extend the tail
RECURSIVE ExtendTail(_, _, _)
ExtendTail(act, adj, new_tail) ==
  IF new_tail < Len(adj) /\ act[adj[new_tail + 1]]
  THEN ExtendTail(act, adj, new_tail + 1)
  ELSE new_tail

\* second loop of UndoSelfMutate over active_list_
RECURSIVE UndoTails(_, _)
UndoTails(sg, i) ==
  IF i > Len(sg.active_list_) THEN sg
  ELSE LET u_r == sg.active_list_[i]
       IN UndoTails([sg EXCEPT !.active_tails_[u_r] =
                       ExtendTail(sg.active_, sg.adj_list_[u_r], @)], i + 1)

\* UndoSelfMutate that does not extend the tails
UndoSelfMutate_KeepsTails(sg) ==
  LET frame == last_frame_iter(sg.dropped_verts_)
  IN [sg EXCEPT !.active_ = SetAll(@, frame, 1, TRUE),
                !.active_list_ = @ \o frame,
                !.dropped_verts_ = pop_frame(@)]

\* UndoSelfMutate that re-inserts the dropped vertices at the front
UndoSelfMutate_Prepends(sg) ==
  LET frame == last_frame_iter(sg.dropped_verts_)
      s1 == [sg EXCEPT !.active_ = SetAll(@, frame, 1, TRUE),
                       !.active_list_ = frame \o @,
                       !.dropped_verts_ = pop_frame(@)]
  IN UndoTails(s1, 1)

\* SubGraph::UndoSelfMutate
UndoSelfMutate(sg) ==
  LET frame == last_frame_iter(sg.dropped_verts_)
      s1 == [sg EXCEPT !.active_ = SetAll(@, frame, 1, TRUE),
                       !.active_list_ = @ \o frame,
                       !.dropped_verts_ = pop_frame(@)]
  IN UndoTails(s1, 1)

\* PopNonNeighbors that leaves the frame on the stack
PopNonNeighbors_Forgets(sg) == sg

\* SubGraph::PopNonNeighbors
PopNonNeighbors(sg) ==
  [sg EXCEPT !.pivot_non_neighs_ = pop_frame(@)]

\* ------------------------------------------------------------ the state
VARIABLES
  g,        \* the undirected input graph (Builder::MakeGraph)
  dag,      \* the directionalized graph the counting runs on
  runs,     \* the executions compared: <<[ord, variant], ...>>
  run,      \* index of the current execution in runs
  k,        \* clique size of the fixed-k executions (cli.clique_size())
  max_k,    \* max_k of the sweep executions
  pc,       \* "direct", "count", "done" or "abort"
  v,        \* loop variable of the root loop of PivotCount
  sg,       \* the SubGraph of the (single) worker
  stack,    \* activation records of PivotRecurse, innermost last
  count,    \* PivotCount's count (fixed-k)
  counts,   \* PivotCount's local_counts (sweep), indexed 0..max_k
  result,   \* what each finished execution returned
  comb,     \* the CombCache n_choose_k, stepwise: construction and one query
  team,     \* the OpenMP team of PivotCount: shared state, suspended workers
  peel,     \* the OpenMP team of CoreApprox: shared and per-thread state
  api,      \* a client of GroupedStack and SubGraph outside PivotRecurse
  driver,   \* main of the two binaries: arguments, exit status, output
  adv       \* the merging scan of CoreIsAdvantageous, stepwise

vars == <<g, dag, runs, run, k, max_k, pc, v, sg, stack, count, counts, result,
          comb, team, peel, api, driver, adv>>

\* the value of a component a specification does not step
Unused == [pc |-> "unused"]

\* the executions of Spec: both binaries on both ordering branches
PipelineRuns ==
  << [ord |-> "degree", variant |-> "fixed"],
     [ord |-> "degree", variant |-> "sweep"],
     [ord |-> "core", variant |-> "fixed"],
     [ord |-> "core", variant |-> "sweep"] >>

\* the executions of SpecDag: both binaries on a given DAG
DagRuns ==
  << [ord |-> "given", variant |-> "fixed"],
     [ord |-> "given", variant |-> "sweep"] >>

variant == runs[run].variant

\* the max_k argument of the current execution's PivotRecurse
CurMaxK == IF variant = "fixed" THEN k ELSE max_k

ZeroCounts == [s \in 0..max_k |-> Zero]

Top == stack[Len(stack)]

\* the std::span verts_to_induce of an activation record: offset and length
\* into the elements of pivot_non_neighs_
SpanSeq(gs, span) == SubSeq(gs.elems_, span.start + 1, span.start + span.len)

\* what an activation record remembers of the SubGraph at its entry
EntryOf(s) ==
  [nd |-> Len(s.dropped_verts_.starts_),
   np |-> Len(s.pivot_non_neighs_.starts_),
   P |-> Range(s.active_list_),
   capacity |-> s.pivot_non_neighs_.capacity_]

NewFrame(s, clique_size, num_pivots) ==
  [clique_size |-> clique_size, num_pivots |-> num_pivots,
   pivot_id_r |-> -1, span |-> [start |-> 0, len |-> 0], i |-> 0,
   count |-> Zero, pc |-> "entry",
   entry |-> EntryOf(s),   \* history: SubGraph at entry of this call
   pre |-> s,              \* history: SubGraph before the last induce
   post |-> s,             \* history: SubGraph right after the last induce
   v_r |-> -1, excl |-> <<>>,  \* history: arguments of the last induce
   queries |-> <<>>,   \* history: the <<n, k>> of every n_choose_k(n, k)
                       \* this call issued
   written |-> {}]     \* history: the indices of counts[] this call wrote

\* ------------------------------------------------------------ initial states
\* The input graphs of Spec: every graph on MaxNodes vertices whose ids are
\* numbered by non-increasing degree.  Every graph on MaxNodes vertices has
\* such a numbering, so every shape of graph is among them; the degree
\* comparison and the id tie-break of GreaterDegreeOrID then pull in opposite
\* directions.
DegreeSorted(G) ==
  \A u \in Nodes(G) :
    u + 1 \in Nodes(G) => out_degree(G, u) >= out_degree(G, u + 1)

InputGraphs ==
  {G \in {[n |-> MaxNodes, e |-> E] : E \in SUBSET AllEdges(MaxNodes)} :
     DegreeSorted(G)}

Init ==
  /\ g \in InputGraphs
  /\ dag = [u \in Nodes(g) |-> <<>>]
  /\ runs = PipelineRuns
  /\ run = 1
  /\ k \in 1..MaxK
  /\ max_k = k
  /\ pc = "direct"
  /\ v = 0
  /\ sg = EmptySubGraph
  /\ stack = <<>>
  /\ count = Zero
  /\ counts = ZeroCounts
  /\ result = <<>>
  /\ comb = Unused
  /\ team = Unused
  /\ peel = Unused
  /\ api = Unused
  /\ driver = Unused
  /\ adv = Unused

\* The DAGs of SpecDag.  Vertex 0 points to every other vertex, so that the
\* SubGraph of root 0 is a whole graph H on the vertices 1..H.n; the edges of
\* H point from the smaller id to the larger one.  H is any graph on MaxSub
\* vertices, or any graph on MaxSub + 1 vertices numbered by non-increasing
\* degree (H is written on the ids 0..H.n-1 and shifted by one).
SubGraphs ==
  {[n |-> MaxSub, e |-> E] : E \in SUBSET AllEdges(MaxSub)}
  \cup {G \in {[n |-> MaxSub + 1, e |-> E] : E \in SUBSET AllEdges(MaxSub + 1)} :
          DegreeSorted(G)}

DagOf(H) ==
  [u \in 0..H.n |->
     IF u = 0 THEN [i \in 1..H.n |-> i]
     ELSE SortedSeq({w \in 1..H.n : w > u /\ {u - 1, w - 1} \in H.e})]

InitDag ==
  /\ \E H \in SubGraphs :
       /\ dag = DagOf(H)
       /\ g = [n |-> H.n + 1,
               e |-> {{0, w} : w \in 1..H.n}
                     \cup {{u + 1, w + 1} : <<u, w>> \in
                             {x \in Nodes(H) \X Nodes(H) : {x[1], x[2]} \in H.e}}]
  /\ runs = DagRuns
  /\ run = 1
  /\ k \in 1..MaxK
  /\ max_k \in {k, MaxK}
  /\ pc = "count"
  /\ v = 0
  /\ sg = EmptySubGraph
  /\ stack = <<>>
  /\ count = Zero
  /\ counts = ZeroCounts
  /\ result = <<>>
  /\ comb = Unused
  /\ team = Unused
  /\ peel = Unused
  /\ api = Unused
  /\ driver = Unused
  /\ adv = Unused

\* ------------------------------------------------------- Directionalize
\* Ordering::Directionalize, else branch
DirectionalizeDegree ==
  /\ pc = "direct"
  /\ runs[run].ord = "degree"
  /\ dag' = DirectGraphDegree(g)
  /\ pc' = "count"
  /\ UNCHANGED <<api, driver, adv, comb, team, peel, g, runs, run, k, max_k, v, sg, stack, count, counts, result>>

\* Ordering::Directionalize, then branch
DirectionalizeCore ==
  /\ pc = "direct"
  /\ runs[run].ord = "core"
  /\ dag' = DirectGraphCore(g, CoreApprox(g))
  /\ pc' = "count"
  /\ UNCHANGED <<api, driver, adv, comb, team, peel, g, runs, run, k, max_k, v, sg, stack, count, counts, result>>

\* Ordering::Directionalize, the call of CoreIsAdvantageous when the vertex
\* of largest degree has no neighbour: std::ranges::max is applied to the
\* empty range g.out_neigh(biggest_id) and the value it reads past the end
\* is used as a vertex id.  The behaviour is undefined: the execution ends
\* abnormally here, or it goes on (DirectionalizeDegree, DirectionalizeCore).
DirectionalizeAbort ==
  /\ pc = "direct"
  /\ out_neigh(g, biggest_id(g)) = <<>>
  /\ pc' = "abort"
  /\ UNCHANGED <<api, driver, adv, comb, team, peel, g, dag, runs, run, k, max_k, v, sg, stack, count, counts, result>>

\* ------------------------------------------------------------ PivotCount
num_nodes == Cardinality(DOMAIN dag)

\* body of the root loop up to the call: sg.InduceFromDAG(dag, v) and the
\* entry into PivotRecurse(sg, k, 1, 0)
RootCall(vr) ==
  /\ pc = "count"
  /\ variant = vr
  /\ stack = <<>>
  /\ v < num_nodes
  /\ LET s == InduceFromDAG(sg, dag, v)
     IN /\ sg' = s
        /\ stack' = <<NewFrame(s, 1, 0)>>
  /\ UNCHANGED <<api, driver, adv, comb, team, peel, g, dag, runs, run, k, max_k, pc, v, count, counts, result>>

\* the root call returned: count += ..., v++
RootReturn(vr) ==
  /\ pc = "count"
  /\ variant = vr
  /\ Len(stack) = 1
  /\ Top.pc = "done"
  /\ count' = count_add(count, Top.count)
  /\ stack' = <<>>
  /\ v' = v + 1
  /\ UNCHANGED <<api, driver, adv, comb, team, peel, g, dag, runs, run, k, max_k, pc, sg, counts, result>>

\* the root loop is over: PivotCount returns and the execution ends
CountReturn(vr) ==
  /\ pc = "count"
  /\ variant = vr
  /\ stack = <<>>
  /\ v = num_nodes
  /\ result' = Append(result, IF vr = "fixed" THEN count ELSE counts)
  /\ IF run = Len(runs)
     THEN pc' = "done" /\ UNCHANGED run
     ELSE /\ run' = run + 1
          /\ pc' = IF runs[run + 1].ord = runs[run].ord
                   THEN "count" ELSE "direct"
  /\ v' = 0
  /\ count' = Zero
  /\ counts' = ZeroCounts
  /\ sg' = EmptySubGraph
  /\ UNCHANGED <<api, driver, adv, comb, team, peel, g, dag, runs, k, max_k, stack>>

\* ----------------------------------------------------------- PivotRecurse
num_holds == Top.clique_size - Top.num_pivots

SetTop(f) == [stack EXCEPT ![Len(stack)] = f]

\* the early prune with <= in place of <
Prune_OffByOne ==
  /\ pc = "count"
  /\ variant = "fixed"
  /\ stack # <<>>
  /\ Top.pc = "entry"
  /\ NumActive(sg) + Top.clique_size <= CurMaxK
  /\ stack' = SetTop([Top EXCEPT !.count = Zero, !.pc = "done"])
  /\ UNCHANGED <<api, driver, adv, comb, team, peel, g, dag, runs, run, k, max_k, pc, v, sg, count, counts, result>>

\* if ((sg->NumActive() + clique_size) < max_k) return 0;
Prune ==
  /\ pc = "count"
  /\ variant = "fixed"
  /\ stack # <<>>
  /\ Top.pc = "entry"
  /\ NumActive(sg) + Top.clique_size < CurMaxK
  /\ stack' = SetTop([Top EXCEPT !.count = Zero, !.pc = "done"])
  /\ UNCHANGED <<api, driver, adv, comb, team, peel, g, dag, runs, run, k, max_k, pc, v, sg, count, counts, result>>

\* the base case taken at every node, whatever is left of the candidates
BaseGuard_Always(vr) ==
  /\ pc = "count"
  /\ variant = vr
  /\ stack # <<>>
  /\ Top.pc = "entry"

\* if (sg->NumActive() == 0 || num_holds == max_k)
BaseGuard(vr) ==
  /\ pc = "count"
  /\ variant = vr
  /\ stack # <<>>
  /\ Top.pc = "entry"
  /\ NumActive(sg) = 0 \/ num_holds = CurMaxK

\* the fixed-k base case without the binomial: one clique per leaf
FixedBase_CountsOne ==
  /\ BaseGuard("fixed")
  /\ ~(NumActive(sg) + Top.clique_size < CurMaxK)
  /\ stack' = SetTop([Top EXCEPT !.count = One, !.pc = "done"])
  /\ UNCHANGED <<api, driver, adv, comb, team, peel, g, dag, runs, run, k, max_k, pc, v, sg, count, counts, result>>

\* fixed-k base case: return n_choose_k(num_pivots, max_k - num_holds)
FixedBase ==
  /\ BaseGuard("fixed")
  /\ ~(NumActive(sg) + Top.clique_size < CurMaxK)
  /\ stack' = SetTop([Top EXCEPT
                        !.count = n_choose_k(Top.num_pivots, CurMaxK - num_holds),
                        !.queries = <<<<Top.num_pivots, CurMaxK - num_holds>>>>,
                        !.pc = "done"])
  /\ UNCHANGED <<api, driver, adv, comb, team, peel, g, dag, runs, run, k, max_k, pc, v, sg, count, counts, result>>

\* the loop of the sweep base case with p < min(...) in place of p <= min(...)
RECURSIVE SweepAdd_ShortLoop(_, _, _, _, _)
SweepAdd_ShortLoop(cs, holds, pivots, mk, p) ==
  IF p < Min(pivots, mk - holds)
  THEN SweepAdd_ShortLoop([cs EXCEPT ![holds + p] =
                                 count_add(@, n_choose_k(pivots, p))],
                          holds, pivots, mk, p + 1)
  ELSE cs

\* for (p = 0; p <= min(pivots, max_k - holds); p++)
\*   counts[holds + p] += n_choose_k(pivots, p)
RECURSIVE SweepAdd(_, _, _, _, _)
SweepAdd(cs, holds, pivots, mk, p) ==
  IF p <= Min(pivots, mk - holds)
  THEN SweepAdd([cs EXCEPT ![holds + p] =
                                 count_add(@, n_choose_k(pivots, p))],
                holds, pivots, mk, p + 1)
  ELSE cs

\* the n_choose_k(pivots, p) of the loop of the sweep base case, in order
RECURSIVE SweepQueries(_, _, _, _, _)
SweepQueries(qs, holds, pivots, mk, p) ==
  IF p <= Min(pivots, mk - holds)
  THEN SweepQueries(Append(qs, <<pivots, p>>), holds, pivots, mk, p + 1)
  ELSE qs

\* sweep base case
SweepBase ==
  /\ BaseGuard("sweep")
  /\ counts' = SweepAdd(counts, num_holds, Top.num_pivots, CurMaxK, 0)
  /\ LET qs == SweepQueries(<<>>, num_holds, Top.num_pivots, CurMaxK, 0)
     IN stack' = SetTop([Top EXCEPT
                           !.queries = qs,
                           !.written = {num_holds + qs[j][2] : j \in DOMAIN qs},
                           !.pc = "done"])
  /\ UNCHANGED <<api, driver, adv, comb, team, peel, g, dag, runs, run, k, max_k, pc, v, sg, count, result>>

\* pivot_id_r = FindPivot(); verts_to_induce = ActiveUnreachableFromPivot()
Pivot(vr) ==
  /\ pc = "count"
  /\ variant = vr
  /\ stack # <<>>
  /\ Top.pc = "entry"
  /\ vr = "fixed" => ~(NumActive(sg) + Top.clique_size < CurMaxK)
  /\ ~(NumActive(sg) = 0 \/ num_holds = CurMaxK)
  /\ LET p == FindPivot(sg)
         s == ActiveUnreachableFromPivot(sg, p)
         start == s.pivot_non_neighs_.starts_[Len(s.pivot_non_neighs_.starts_)]
     IN /\ sg' = s
        /\ stack' = SetTop([Top EXCEPT
                              !.pivot_id_r = p,
                              !.span = [start |-> start,
                                        len |-> Len(s.pivot_non_neighs_.elems_)
                                                - start],
                              !.i = 0, !.pc = "loop", !.pre = sg])
  /\ UNCHANGED <<api, driver, adv, comb, team, peel, g, dag, runs, run, k, max_k, pc, v, count, counts, result>>

\* one iteration of the loop over verts_to_induce, up to the recursive call
Induce(vr) ==
  /\ pc = "count"
  /\ variant = vr
  /\ stack # <<>>
  /\ Top.pc = "loop"
  /\ Top.i < Top.span.len
  /\ LET verts_to_induce == SpanSeq(sg.pivot_non_neighs_, Top.span)
         v_r == verts_to_induce[Top.i + 1]
         is_pivot == (v_r = Top.pivot_id_r)
         excl == IF is_pivot THEN <<>> ELSE verts_to_induce
         s == InduceFromSelfMutate(sg, v_r, excl)
     IN /\ sg' = s
        /\ stack' = Append(
             SetTop([Top EXCEPT !.pc = "call", !.pre = sg, !.post = s,
                                !.v_r = v_r, !.excl = excl]),
             NewFrame(s, Top.clique_size + 1,
                      Top.num_pivots + (IF is_pivot THEN 1 ELSE 0)))
  /\ UNCHANGED <<api, driver, adv, comb, team, peel, g, dag, runs, run, k, max_k, pc, v, count, counts, result>>

\* the recursive call returned: count += ..., sg->UndoSelfMutate(), next v_r
Undo(vr) ==
  /\ pc = "count"
  /\ variant = vr
  /\ Len(stack) > 1
  /\ Top.pc = "done"
  /\ LET parent == stack[Len(stack) - 1]
     IN stack' = Append(SubSeq(stack, 1, Len(stack) - 2),
                        [parent EXCEPT !.count = count_add(@, Top.count),
                                       !.i = @ + 1, !.pc = "loop"])
  /\ sg' = UndoSelfMutate(sg)
  /\ UNCHANGED <<api, driver, adv, comb, team, peel, g, dag, runs, run, k, max_k, pc, v, count, counts, result>>

\* the loop is over: sg->PopNonNeighbors(); return count
Pop(vr) ==
  /\ pc = "count"
  /\ variant = vr
  /\ stack # <<>>
  /\ Top.pc = "loop"
  /\ Top.i = Top.span.len
  /\ sg' = PopNonNeighbors(sg)
  /\ stack' = SetTop([Top EXCEPT !.pc = "done"])
  /\ UNCHANGED <<api, driver, adv, comb, team, peel, g, dag, runs, run, k, max_k, pc, v, count, counts, result>>

\* the fixed-k binary (pivotscale.cc)
FixedRootCall == RootCall("fixed")
FixedRootReturn == RootReturn("fixed")
FixedCountReturn == CountReturn("fixed")
FixedPivot == Pivot("fixed")
FixedInduce == Induce("fixed")
FixedUndo == Undo("fixed")
FixedPop == Pop("fixed")

\* the sweep binary (pivotscale-sweep.cc)
SweepRootCall == RootCall("sweep")
SweepRootReturn == RootReturn("sweep")
SweepCountReturn == CountReturn("sweep")
SweepPivot == Pivot("sweep")
SweepInduce == Induce("sweep")
SweepUndo == Undo("sweep")
SweepPop == Pop("sweep")

NextCount ==
  \/ FixedRootCall \/ FixedRootReturn \/ FixedCountReturn
  \/ Prune \/ FixedBase \/ FixedPivot \/ FixedInduce \/ FixedUndo \/ FixedPop
  \/ SweepRootCall \/ SweepRootReturn \/ SweepCountReturn
  \/ SweepBase \/ SweepPivot \/ SweepInduce \/ SweepUndo \/ SweepPop

Next ==
  \/ DirectionalizeDegree \/ DirectionalizeCore \/ DirectionalizeAbort
  \/ NextCount

Spec == Init /\ [][Next]_vars

SpecDag == InitDag /\ [][NextCount]_vars

\* ------------------------------------------- the combination cache, stepwise
\* The construction of the global n_choose_k, one row of memo per step, and
\* then one query operator()(n, k) with 0 <= k <= n <= MaxN; the loop of
\* compute takes one step per iteration.
MaxN == 101

pipeline ==
  <<g, dag, runs, run, k, max_k, pc, v, sg, stack, count, counts, result>>

\* a pipeline that has nothing to run
IdlePipeline ==
  /\ g = [n |-> 1, e |-> {}]
  /\ dag = [u \in {0} |-> <<>>]
  /\ runs = <<>>
  /\ run = 0
  /\ k = 1
  /\ max_k = 1
  /\ pc = "done"
  /\ v = 0
  /\ sg = EmptySubGraph
  /\ stack = <<>>
  /\ count = Zero
  /\ counts = ZeroCounts
  /\ result = <<>>

\* row n of Pascal's triangle in unbounded arithmetic from row n - 1
PascalRow(prev, n) ==
  [j \in 1..(n + 1) |->
     IF j - 1 = 0 \/ j - 1 = n THEN One ELSE NatAdd(prev[j - 1], prev[j])]

InitComb ==
  /\ IdlePipeline
  /\ comb = [pc |-> "construct",
             n |-> 0,          \* the n of the constructor's outer loop
             memo |-> <<>>,    \* the rows memo[0..n-1] (row n at index n + 1)
             ref |-> <<>>,     \* history: the same rows of Pascal's triangle
             qn |-> 0, qk |-> 0,     \* the arguments of the query
             kmin |-> 0, i |-> 0, result |-> Zero,   \* locals of compute
             exact |-> Zero,   \* history: result in unbounded arithmetic
             ret |-> Zero]     \* the value the query returned
  /\ team = Unused
  /\ peel = Unused
  /\ api = Unused
  /\ driver = Unused
  /\ adv = Unused

\* CombCache::CombCache: one iteration of the loop on n
CombCacheRow ==
  /\ comb.pc = "construct"
  /\ comb' = [comb EXCEPT
        !.memo = Append(@, memoFill(IF comb.n = 0 THEN <<>> ELSE comb.memo[comb.n],
                                    comb.n)),
        !.ref = Append(@, PascalRow(IF comb.n = 0 THEN <<>> ELSE comb.ref[comb.n],
                                    comb.n)),
        !.n = @ + 1,
        !.pc = IF comb.n + 1 < kNumPrecompute THEN "construct" ELSE "ready"]
  /\ UNCHANGED <<pipeline, team, peel, api, driver, adv>>

\* CombCache::operator() on the cached path
CombCacheLookup ==
  /\ comb.pc = "ready"
  /\ \E n \in 0..(kNumPrecompute - 1) : \E kk \in 0..n :
       /\ n < kNumPrecompute /\ kk < kNumPrecompute
       /\ comb' = [comb EXCEPT !.qn = n, !.qk = kk,
                                !.ret = comb.memo[n + 1][kk + 1],
                                !.pc = "returned"]
  /\ UNCHANGED <<pipeline, team, peel, api, driver, adv>>

\* CombCache::operator() falling through to compute, up to the loop
ComputeCall ==
  /\ comb.pc = "ready"
  /\ \E n \in kNumPrecompute..MaxN : \E kk \in 0..n :
       /\ ~(n < kNumPrecompute /\ kk < kNumPrecompute)
       /\ IF kk = 0 \/ kk = n
          THEN comb' = [comb EXCEPT !.qn = n, !.qk = kk, !.ret = One,
                                    !.exact = One, !.pc = "returned"]
          ELSE comb' = [comb EXCEPT !.qn = n, !.qk = kk,
                                    !.kmin = Min(kk, n - kk), !.i = 1,
                                    !.result = One, !.exact = One,
                                    !.pc = "loop"]
  /\ UNCHANGED <<pipeline, team, peel, api, driver, adv>>

\* CombCache::compute: one iteration of the loop
ComputeStep ==
  /\ comb.pc = "loop"
  /\ comb.i <= comb.kmin
  /\ comb' = [comb EXCEPT
        !.result = computeIter(comb.qn, comb.kmin, comb.i, @),
        !.exact = NatDiv(NatMul(@, comb.qn - (comb.kmin - comb.i)), comb.i),
        !.i = @ + 1]
  /\ UNCHANGED <<pipeline, team, peel, api, driver, adv>>

\* CombCache::compute: the loop is over
ComputeReturn ==
  /\ comb.pc = "loop"
  /\ comb.i > comb.kmin
  /\ comb' = [comb EXCEPT !.ret = comb.result, !.pc = "returned"]
  /\ UNCHANGED <<pipeline, team, peel, api, driver, adv>>

NextComb ==
  \/ CombCacheRow
  \/ CombCacheLookup
  \/ ComputeCall
  \/ ComputeStep
  \/ ComputeReturn

SpecComb == InitComb /\ [][NextComb]_vars

\* ----------------------------------------------- PivotCount, the OpenMP team
\* The parallel region of PivotCount with NumWorkers threads.  The variables
\* v, sg, stack, count and counts are the private ones of the thread that is
\* running (count is its reduction copy, counts its local_counts); team holds
\* what the threads share and the private variables of the suspended threads.
\* Any thread may be switched in between any two steps.
NumWorkers == 2

\* number of vertices of the graphs of SpecPar
MaxPar == 4

Workers == 1..NumWorkers

\* the private variables of a thread at the start of the parallel region
\* (mk is the max_k of the execution)
FreshContext(mk) ==
  [v |-> 0, sg |-> EmptySubGraph, stack |-> <<>>, count |-> Zero,
   counts |-> [s \in 0..mk |-> Zero]]

\* PivotCount up to the parallel region, on the degree-ordered DAG of every
\* graph on MaxPar vertices numbered by non-increasing degree
InitPar ==
  /\ g \in {G \in {[n |-> MaxPar, e |-> E] : E \in SUBSET AllEdges(MaxPar)} :
              DegreeSorted(G)}
  /\ dag = DirectGraphDegree(g)
  /\ \E vr \in {"fixed", "sweep"} : runs = <<[ord |-> "given", variant |-> vr]>>
  /\ run = 1
  /\ k \in 1..MaxK
  /\ max_k = k
  /\ pc = "count"
  /\ v = 0
  /\ sg = EmptySubGraph
  /\ stack = <<>>
  /\ count = Zero
  /\ counts = ZeroCounts
  /\ result = <<>>
  /\ comb = Unused
  /\ peel = Unused
  /\ api = Unused
  /\ driver = Unused
  /\ adv = Unused
  /\ team = [tid |-> 1,       \* the thread that is running
             ctx |-> [w \in Workers |-> FreshContext(max_k)],
                              \* private variables of the suspended threads
             wpc |-> [w \in Workers |-> "fetch"],
                              \* "fetch", "body", "merge" or "end"
             next_v |-> 0,    \* the next iteration the dynamic schedule hands out
             count |-> Zero,  \* the shared count (fixed-k)
             counts |-> ZeroCounts,            \* the shared counts (sweep)
             mi |-> [w \in Workers |-> 0],    \* k of the merge loop (sweep)
             log |-> <<>>]    \* history: the iterations handed out, and to whom

\* the scheduler suspends the running thread and resumes thread w
Switch(w) ==
  /\ pc = "count"
  /\ w # team.tid
  /\ team.wpc[w] # "end"
  /\ team' = [team EXCEPT
        !.tid = w,
        !.ctx = [@ EXCEPT ![team.tid] = [v |-> v, sg |-> sg, stack |-> stack,
                                         count |-> count, counts |-> counts],
                          ![w] = FreshContext(max_k)]]
  /\ v' = team.ctx[w].v
  /\ sg' = team.ctx[w].sg
  /\ stack' = team.ctx[w].stack
  /\ count' = team.ctx[w].count
  /\ counts' = team.ctx[w].counts
  /\ UNCHANGED <<api, driver, adv, comb, peel, g, dag, runs, run, k, max_k, pc, result>>

SwitchThread == \E w \in Workers : Switch(w)

\* schedule(dynamic, 1) hands the next iteration to the running thread, which
\* runs the body up to the call: sg.InduceFromDAG(dag, v), PivotRecurse(...)
ParRootCall ==
  /\ pc = "count"
  /\ team.wpc[team.tid] = "fetch"
  /\ team.next_v < num_nodes
  /\ v' = team.next_v
  /\ LET s == InduceFromDAG(sg, dag, team.next_v)
     IN /\ sg' = s
        /\ stack' = <<NewFrame(s, 1, 0)>>
  /\ team' = [team EXCEPT
        !.next_v = @ + 1,
        !.wpc[team.tid] = "body",
        !.log = Append(@, [root |-> team.next_v, worker |-> team.tid])]
  /\ UNCHANGED <<api, driver, adv, comb, peel, g, dag, runs, run, k, max_k, pc, count, counts, result>>

\* the root call returned: count += ... on the thread's own copy
ParRootReturn ==
  /\ pc = "count"
  /\ team.wpc[team.tid] = "body"
  /\ Len(stack) = 1
  /\ Top.pc = "done"
  /\ count' = count_add(count, Top.count)
  /\ stack' = <<>>
  /\ team' = [team EXCEPT !.wpc[team.tid] = "fetch"]
  /\ UNCHANGED <<api, driver, adv, comb, peel, g, dag, runs, run, k, max_k, pc, v, sg, counts, result>>

\* no iteration is left for the running thread
ParLoopEnd ==
  /\ pc = "count"
  /\ team.wpc[team.tid] = "fetch"
  /\ ~(team.next_v < num_nodes)
  /\ team' = [team EXCEPT !.wpc[team.tid] = "merge", !.mi[team.tid] = 0]
  /\ UNCHANGED <<pipeline, comb, peel, api, driver, adv>>

\* a combination that stores the thread's copy over the shared count
ParReduce_LostUpdate ==
  /\ pc = "count"
  /\ variant = "fixed"
  /\ team.wpc[team.tid] = "merge"
  /\ team' = [team EXCEPT !.count = count, !.wpc[team.tid] = "end"]
  /\ UNCHANGED <<pipeline, comb, peel, api, driver, adv>>

\* reduction(+ : count): the thread's copy is combined into the shared count
ParReduce ==
  /\ pc = "count"
  /\ variant = "fixed"
  /\ team.wpc[team.tid] = "merge"
  /\ team' = [team EXCEPT !.count = count_add(@, count),
                          !.wpc[team.tid] = "end"]
  /\ UNCHANGED <<pipeline, comb, peel, api, driver, adv>>

\* one iteration of the merge loop: #pragma omp atomic counts[k] += local_counts[k]
ParAtomicAdd ==
  /\ pc = "count"
  /\ variant = "sweep"
  /\ team.wpc[team.tid] = "merge"
  /\ team.mi[team.tid] <= max_k
  /\ team' = [team EXCEPT
        !.counts[team.mi[team.tid]] = count_add(@, counts[team.mi[team.tid]]),
        !.mi[team.tid] = @ + 1]
  /\ UNCHANGED <<pipeline, comb, peel, api, driver, adv>>

\* the merge loop is over
ParMergeEnd ==
  /\ pc = "count"
  /\ variant = "sweep"
  /\ team.wpc[team.tid] = "merge"
  /\ team.mi[team.tid] > max_k
  /\ team' = [team EXCEPT !.wpc[team.tid] = "end"]
  /\ UNCHANGED <<pipeline, comb, peel, api, driver, adv>>

\* every thread reached the end of the parallel region: PivotCount returns
ParCountReturn ==
  /\ pc = "count"
  /\ \A w \in Workers : team.wpc[w] = "end"
  /\ result' = Append(result, IF variant = "fixed" THEN team.count
                              ELSE team.counts)
  /\ pc' = "done"
  /\ UNCHANGED <<api, driver, adv, comb, team, peel, g, dag, runs, run, k, max_k, v, sg, stack,
                 count, counts>>

NextPar ==
  \/ SwitchThread
  \/ ParRootCall \/ ParRootReturn \/ ParLoopEnd
  \/ ParReduce \/ ParAtomicAdd \/ ParMergeEnd \/ ParCountReturn
  \/ Prune \/ FixedBase \/ FixedPivot \/ FixedInduce \/ FixedUndo \/ FixedPop
  \/ SweepBase \/ SweepPivot \/ SweepInduce \/ SweepUndo \/ SweepPop

SpecPar == InitPar /\ [][NextPar]_vars

\* ------------------------------------------------ CoreApprox, the OpenMP team
\* The parallel region of Ordering::CoreApprox with NumThreads threads, one
\* step per access to a shared variable.  peel holds the shared variables of
\* CoreApprox and, in th, the private variables and the position of every
\* thread; the input graph is g.
NumThreads == 2

\* number of vertices of the graphs of SpecCore
MaxCore == 4

Threads == 0..(NumThreads - 1)

\* the values of epsilon, as fractions <<numerator, denominator>>;
\* Directionalize passes -1/2
EpsilonValues == {<<-3, 2>>, <<-1, 2>>, <<0, 1>>, <<1, 1>>}

\* the chunk of schedule(static, 1024), and a chunk of one vertex, with which
\* the few vertices of a small graph are dealt out as the chunks of a large
\* graph are
ChunkSizes == {1, 1024}

\* the conversion of a double to NodeID truncates towards zero
TruncDiv(a, b) == IF a >= 0 THEN a \div b ELSE -((-a) \div b)

\* static_cast<NodeID>((1 + epsilon) * avg_deg), avg_deg = total / num
DegThreshEps(eps, total, num) ==
  TruncDiv((eps[2] + eps[1]) * total, eps[2] * num)

\* schedule(static, chunk): the chunks are dealt to the threads in turn, so
\* the i-th iteration (i = 1, 2, ...) of thread t is the vertex
MyVertex(t, i) ==
  (((i - 1) \div peel.chunk) * NumThreads + t) * peel.chunk
    + ((i - 1) % peel.chunk)

Th(t) == peel.th[t]

\* min over the thread's remaining list of curr_degree, starting from m
RECURSIVE LocalMinDeg(_, _, _)
LocalMinDeg(rem, i, m) ==
  IF i > Len(rem) THEN m
  ELSE LocalMinDeg(rem, i + 1, Min(m, peel.curr_degree[rem[i]]))

FreshThread ==
  [pc |-> "while",      \* position of the thread
   it |-> 0,            \* number of iterations of the while loop it finished
   deg_thresh |-> 0, local_edges_removed |-> 0, local_min_deg |-> 0,
   prior_min |-> 0,
   remaining |-> <<>>, next_remaining |-> <<>>, removed |-> <<>>,
   idx |-> 1,           \* position of the loop on vertices
   nidx |-> 1,          \* position of the loop on neighbours
   seen_num |-> -1,     \* history: num_remaining as the while test read it
   seen_total |-> -1,   \* history: active_degree_total as avg_deg read it
   seen_level |-> -1]   \* history: level as if (level == 0) read it

\* CoreApprox up to the parallel region, on every graph on MaxCore vertices
InitCore ==
  /\ g \in {[n |-> MaxCore, e |-> E] : E \in SUBSET AllEdges(MaxCore)}
  /\ dag = [u \in Nodes(g) |-> <<>>]
  /\ runs = <<>>
  /\ run = 0
  /\ k = 1
  /\ max_k = 1
  /\ pc = "direct"
  /\ v = 0
  /\ sg = EmptySubGraph
  /\ stack = <<>>
  /\ count = Zero
  /\ counts = ZeroCounts
  /\ result = <<>>
  /\ comb = Unused
  /\ team = Unused
  /\ api = Unused
  /\ driver = Unused
  /\ adv = Unused
  /\ \E eps \in EpsilonValues, chunk \in ChunkSizes :
       peel = [pc |-> "run",
               epsilon |-> eps,
               chunk |-> chunk,
               rankings |-> [u \in Nodes(g) |-> -1],
               curr_degree |-> [u \in Nodes(g) |-> out_degree(g, u)],
               active_degree_total |-> num_edges_directed(g),
               min_deg_active |-> g.n,
               num_remaining |-> g.n,
               level |-> 0,
               singles |-> 0,  \* instances of the single at line 136 executed
               incs |-> 0,     \* instances of the single at line 210 executed
               ranked_now |-> 0,   \* history: vertices ranked in this iteration
               writes |-> [u \in Nodes(g) |-> 0],
                                   \* history: assignments to rankings[u]
               th |-> [t \in Threads |-> FreshThread]]

\* peel with the private variables of thread t replaced
SetTh(t, r) == [peel EXCEPT !.th[t] = r]

CoreStep(p) ==
  /\ peel.pc = "run"
  /\ peel' = p
  /\ UNCHANGED <<pipeline, comb, team, api, driver, adv>>

\* while (num_remaining > 0) { avg_deg = ...; deg_thresh = ...;
WhileTest(t) ==
  /\ Th(t).pc = "while"
  /\ CoreStep(
       IF peel.num_remaining > 0
       THEN SetTh(t, [Th(t) EXCEPT
              !.deg_thresh = DegThreshEps(peel.epsilon, peel.active_degree_total,
                                          peel.num_remaining),
              !.seen_num = peel.num_remaining,
              !.seen_total = peel.active_degree_total,
              !.pc = "b135"])
       ELSE SetTh(t, [Th(t) EXCEPT !.seen_num = peel.num_remaining,
                                   !.pc = "end"]))

\* a barrier lets the threads go on once all of them wait at it
Barrier(at, next) ==
  /\ \A t \in Threads : Th(t).pc = at
  /\ CoreStep([peel EXCEPT !.th = [t \in Threads |-> [Th(t) EXCEPT !.pc = next]]])

Barrier135 == Barrier("b135", "single")

\* #pragma omp single: the first thread to arrive resets num_remaining and
\* min_deg_active, the others pass; all wait at the end of the construct
Single(t) ==
  /\ Th(t).pc = "single"
  /\ CoreStep(
       IF peel.singles = Th(t).it
       THEN [peel EXCEPT !.num_remaining = 0,
                         !.min_deg_active = g.n,
                         !.singles = @ + 1,
                         !.ranked_now = 0,
                         !.th[t].pc = "bsingle"]
       ELSE SetTh(t, [Th(t) EXCEPT !.pc = "bsingle"]))

BarrierSingle == Barrier("bsingle", "branch")

\* local_edges_removed = 0; if (level == 0)
Branch(t) ==
  /\ Th(t).pc = "branch"
  /\ CoreStep(SetTh(t, [Th(t) EXCEPT
       !.local_edges_removed = 0,
       !.idx = 1,
       !.seen_level = peel.level,
       !.pc = IF peel.level = 0 THEN "l0" ELSE "scan"]))

\* level 0, one iteration of the loop on u up to the loop on its neighbours
L0Vertex(t) ==
  /\ Th(t).pc = "l0"
  /\ CoreStep(
       IF ~(MyVertex(t, Th(t).idx) < g.n)
       THEN SetTh(t, [Th(t) EXCEPT !.pc = "acc1"])
       ELSE LET u == MyVertex(t, Th(t).idx)
            IN IF out_degree(g, u) <= Th(t).deg_thresh
               THEN [peel EXCEPT !.rankings[u] = peel.level,
                                 !.writes[u] = @ + 1,
                                 !.ranked_now = @ + 1,
                                 !.th[t].nidx = 1,
                                 !.th[t].pc = "l0n"]
               ELSE SetTh(t, [Th(t) EXCEPT !.remaining = Append(@, u),
                                           !.idx = @ + 1]))

\* the decrement of a neighbour's curr_degree with - 2 in place of - 1
AtomicDecrement_Twice(cd, w) == [cd EXCEPT ![w] = @ - 2]

\* #pragma omp atomic curr_degree[v]--
AtomicDecrement(cd, w) == [cd EXCEPT ![w] = @ - 1]

\* level 0, one iteration of the loop on the neighbours of u
L0Neigh(t) ==
  /\ Th(t).pc = "l0n"
  /\ LET u == MyVertex(t, Th(t).idx)
     IN CoreStep(
          IF Th(t).nidx > out_degree(g, u)
          THEN SetTh(t, [Th(t) EXCEPT !.pc = "l0r"])
          ELSE LET w == out_neigh(g, u)[Th(t).nidx]
               IN IF out_degree(g, w) > Th(t).deg_thresh
                  THEN [peel EXCEPT
                          !.curr_degree = AtomicDecrement(@, w),
                          !.th[t].local_edges_removed = @ + 1,
                          !.th[t].nidx = @ + 1]
                  ELSE SetTh(t, [Th(t) EXCEPT !.nidx = @ + 1]))

\* level 0: local_edges_removed += curr_degree[u]
L0Self(t) ==
  /\ Th(t).pc = "l0r"
  /\ LET u == MyVertex(t, Th(t).idx)
     IN CoreStep(SetTh(t, [Th(t) EXCEPT
          !.local_edges_removed = @ + peel.curr_degree[u],
          !.idx = @ + 1,
          !.pc = "l0"]))

\* the scan for the thread's min degree and prior_min = min_deg_active
Scan(t) ==
  /\ Th(t).pc = "scan"
  /\ CoreStep(
       IF Th(t).remaining # <<>>
       THEN SetTh(t, [Th(t) EXCEPT
              !.local_min_deg = LocalMinDeg(Th(t).remaining, 1, g.n),
              !.prior_min = peel.min_deg_active,
              !.pc = "cas"])
       ELSE SetTh(t, [Th(t) EXCEPT !.pc = "b174"]))

\* a selection that keeps the threshold of the average, without the lift to
\* min_deg_active
LiftThresh_Keep(deg_thresh, min_deg_active) == deg_thresh

\* if (deg_thresh < min_deg_active) deg_thresh = min_deg_active
LiftThresh(deg_thresh, min_deg_active) ==
  IF deg_thresh < min_deg_active THEN min_deg_active ELSE deg_thresh

\* the reduction with a plain store in place of compare_and_swap
CasMin_BlindStore(t) ==
  /\ Th(t).pc = "cas"
  /\ CoreStep(
       IF Th(t).local_min_deg < Th(t).prior_min
       THEN [peel EXCEPT !.min_deg_active = Th(t).local_min_deg,
                         !.th[t].pc = "b174"]
       ELSE SetTh(t, [Th(t) EXCEPT !.pc = "b174"]))

\* one test of the while loop around compare_and_swap, and its body
CasMin(t) ==
  /\ Th(t).pc = "cas"
  /\ CoreStep(
       IF Th(t).local_min_deg < Th(t).prior_min
       THEN IF peel.min_deg_active = Th(t).prior_min
            THEN [peel EXCEPT !.min_deg_active = Th(t).local_min_deg,
                              !.th[t].pc = "b174"]
            ELSE SetTh(t, [Th(t) EXCEPT !.prior_min = peel.min_deg_active])
       ELSE SetTh(t, [Th(t) EXCEPT !.pc = "b174"]))

Barrier174 == Barrier("b174", "thresh")

Thresh(t) ==
  /\ Th(t).pc = "thresh"
  /\ CoreStep(SetTh(t, [Th(t) EXCEPT
       !.deg_thresh = LiftThresh(@, peel.min_deg_active),
       !.idx = 1,
       !.pc = "select"]))

\* select vertices to remove: one iteration of the loop on remaining
Select(t) ==
  /\ Th(t).pc = "select"
  /\ CoreStep(
       IF Th(t).idx > Len(Th(t).remaining)
       THEN SetTh(t, [Th(t) EXCEPT !.pc = "b187"])
       ELSE LET u == Th(t).remaining[Th(t).idx]
            IN IF peel.curr_degree[u] <= Th(t).deg_thresh
               THEN [peel EXCEPT !.rankings[u] = peel.level,
                                 !.writes[u] = @ + 1,
                                 !.ranked_now = @ + 1,
                                 !.th[t].removed = Append(@, u),
                                 !.th[t].idx = @ + 1]
               ELSE SetTh(t, [Th(t) EXCEPT !.next_remaining = Append(@, u),
                                           !.idx = @ + 1]))

Barrier187 == Barrier("b187", "rm0")

\* local_edges_removed = 0 before the loop on removed
RemoveInit(t) ==
  /\ Th(t).pc = "rm0"
  /\ CoreStep(SetTh(t, [Th(t) EXCEPT !.local_edges_removed = 0, !.idx = 1,
                                    !.pc = "rm"]))

\* remove vertices: one iteration of the loop on removed up to the loop on
\* the neighbours, or the end of the loop with the swap and the clears
RemoveVertex(t) ==
  /\ Th(t).pc = "rm"
  /\ CoreStep(
       IF Th(t).idx > Len(Th(t).removed)
       THEN SetTh(t, [Th(t) EXCEPT !.remaining = Th(t).next_remaining,
                                   !.next_remaining = <<>>,
                                   !.removed = <<>>,
                                   !.pc = "acc1"])
       ELSE SetTh(t, [Th(t) EXCEPT !.nidx = 1, !.pc = "rmn"]))

\* remove vertices: one iteration of the loop on the neighbours of u
RemoveNeigh(t) ==
  /\ Th(t).pc = "rmn"
  /\ LET u == Th(t).removed[Th(t).idx]
     IN CoreStep(
          IF Th(t).nidx > out_degree(g, u)
          THEN SetTh(t, [Th(t) EXCEPT !.pc = "rmr"])
          ELSE LET w == out_neigh(g, u)[Th(t).nidx]
               IN IF peel.rankings[w] = -1
                  THEN [peel EXCEPT
                          !.curr_degree = AtomicDecrement(@, w),
                          !.th[t].local_edges_removed = @ + 1,
                          !.th[t].nidx = @ + 1]
                  ELSE SetTh(t, [Th(t) EXCEPT !.nidx = @ + 1]))

\* the removal that leaves out local_edges_removed += curr_degree[u]
RemoveSelf_Skips(t) ==
  /\ Th(t).pc = "rmr"
  /\ CoreStep(SetTh(t, [Th(t) EXCEPT !.idx = @ + 1, !.pc = "rm"]))

\* remove vertices: local_edges_removed += curr_degree[u]
RemoveSelf(t) ==
  /\ Th(t).pc = "rmr"
  /\ LET u == Th(t).removed[Th(t).idx]
     IN CoreStep(SetTh(t, [Th(t) EXCEPT
          !.local_edges_removed = @ + peel.curr_degree[u],
          !.idx = @ + 1,
          !.pc = "rm"]))

\* #pragma omp atomic active_degree_total -= local_edges_removed
AccTotal(t) ==
  /\ Th(t).pc = "acc1"
  /\ CoreStep([peel EXCEPT
       !.active_degree_total = @ - Th(t).local_edges_removed,
       !.th[t].pc = "acc2"])

\* #pragma omp atomic num_remaining += remaining.size()
AccRemaining(t) ==
  /\ Th(t).pc = "acc2"
  /\ CoreStep([peel EXCEPT
       !.num_remaining = @ + Len(Th(t).remaining),
       !.th[t].pc = "b208"])

\* the end of the iteration without the barrier: a thread goes on alone
Barrier208_NoWait ==
  \E t \in Threads :
    /\ Th(t).pc = "b208"
    /\ CoreStep(SetTh(t, [Th(t) EXCEPT !.pc = "inc"]))

\* #pragma omp barrier at the end of the iteration
Barrier208 == Barrier("b208", "inc")

\* #pragma omp single nowait: the first thread to arrive does level++
LevelInc(t) ==
  /\ Th(t).pc = "inc"
  /\ CoreStep(
       IF peel.incs = Th(t).it
       THEN [peel EXCEPT !.level = @ + 1,
                         !.incs = @ + 1,
                         !.th[t].it = @ + 1,
                         !.th[t].pc = "while"]
       ELSE SetTh(t, [Th(t) EXCEPT !.it = @ + 1, !.pc = "while"]))

\* every thread left the loop: CoreApprox returns rankings
CoreApproxReturn ==
  /\ \A t \in Threads : Th(t).pc = "end"
  /\ CoreStep([peel EXCEPT !.pc = "done"])

\* the steps of thread t
ThreadStep(t) ==
  \/ WhileTest(t) \/ Single(t) \/ Branch(t)
  \/ L0Vertex(t) \/ L0Neigh(t) \/ L0Self(t)
  \/ Scan(t) \/ CasMin(t) \/ Thresh(t) \/ Select(t)
  \/ RemoveInit(t) \/ RemoveVertex(t) \/ RemoveNeigh(t) \/ RemoveSelf(t)
  \/ AccTotal(t) \/ AccRemaining(t) \/ LevelInc(t)

AnyThreadStep == \E t \in Threads : ThreadStep(t)

NextCore ==
  \/ AnyThreadStep
  \/ Barrier135 \/ BarrierSingle \/ Barrier174 \/ Barrier187 \/ Barrier208
  \/ CoreApproxReturn

SpecCore == InitCore /\ [][NextCore]_vars

\* The fair executions: every thread that can take a step takes one in the
\* end, and a barrier all threads wait at lets them go on.
FairSpecCore ==
  /\ SpecCore
  /\ \A t \in Threads : WF_vars(ThreadStep(t))
  /\ WF_vars(Barrier135 \/ BarrierSingle \/ Barrier174 \/ Barrier187
             \/ Barrier208 \/ CoreApproxReturn)

\* ------------------------------------------------------------- reference
\* S is a clique of G
IsClique(G, S) == \A a, b \in S : a # b => {a, b} \in G.e

\* the number of s-cliques of G, by enumeration of the vertex subsets
NumCliques(G, s) ==
  Cardinality({S \in SUBSET Nodes(G) : Cardinality(S) = s /\ IsClique(G, S)})

\* the size of a largest clique of G
CliqueNumber(G) ==
  CHOOSE s \in 0..G.n :
    /\ NumCliques(G, s) > 0
    /\ \A t \in (s + 1)..G.n : NumCliques(G, t) = 0

\* the executions of the given kind that have returned, looked at in the
\* states between two executions (result changes nowhere else)
Finished(vr) ==
  IF stack = <<>> /\ v = 0
  THEN {r \in DOMAIN result : runs[r].variant = vr}
  ELSE {}

\* --------------------------------------------------------------- claims
\* C1: on every undirected simple graph and for every k >= 1 the fixed-k
\* counter, run on the graph Directionalize returns (either branch), returns
\* the number of k-cliques: |V| for k = 1, the number of edges for k = 2,
\* and 0 for k above the clique number.
C1_FixedCountsCliques ==
  \A r \in Finished("fixed") :
    /\ result[r] = NatOfInt(NumCliques(g, k))
    /\ k = 1 => result[r] = NatOfInt(g.n)
    /\ k = 2 => result[r] = NatOfInt(Cardinality(g.e))
    /\ k > CliqueNumber(g) => result[r] = Zero

\* a graph with a 4-clique: four triangles or more
C1_Witness ==
  /\ pc = "done"
  /\ k = 3
  /\ IntOf(result[1]) >= 4
  /\ CliqueNumber(g) = 4

\* C2: with K >= clique-number(G) the sweep returns counts[0..K] with
\* counts[s] the number of s-cliques for 1 <= s <= K and counts[0] = 0.
C2_SweepCountsCliques ==
  \A r \in Finished("sweep") :
    max_k >= CliqueNumber(g) =>
      /\ DOMAIN result[r] = 0..max_k
      /\ result[r][0] = Zero
      /\ \A s \in 1..max_k : result[r][s] = NatOfInt(NumCliques(g, s))
      /\ result[r][1] = NatOfInt(g.n)
      /\ max_k >= 2 => result[r][2] = NatOfInt(Cardinality(g.e))
      /\ \A s \in 1..max_k : s > CliqueNumber(g) => result[r][s] = Zero

\* two triangles sharing an edge, swept up to 4
C2_Witness ==
  /\ pc = "done"
  /\ max_k = 4
  /\ CliqueNumber(g) = 3
  /\ result[2][3] = NatOfInt(2)
  /\ result[2][4] = Zero

\* C3: counting on the DAG of the degree ordering and on the DAG of the
\* approximate-core ordering gives the same fixed-k count and the same
\* sweep vector.
C3_OrderingInvariance ==
  pc = "done" =>
    /\ result[1] = result[3]
    /\ result[2] = result[4]

\* the two orderings direct the graph differently and there is something
\* to count
C3_Witness ==
  /\ pc = "done"
  /\ DirectGraphDegree(g) # dag
  /\ k = 3
  /\ result[3] # Zero

\* C4: on every DAG and for every 1 <= k <= max_k the fixed-k count for k
\* is entry k of the sweep run with max_k.
C4_FixedMatchesSweep ==
  \A r \in Finished("sweep") :
    /\ runs[r - 1].variant = "fixed"
    /\ result[r - 1] = result[r][k]

\* k < max_k, the fixed-k run pruned a subtree the sweep went through, and
\* the count is not zero
C4_Witness ==
  /\ pc = "done"
  /\ k < max_k
  /\ IntOf(result[1]) > 1
  /\ result[2][max_k] # Zero

\* the set of vertices in the active prefix adj[n][0..tail[n]) of n in s
Prefix(s, n) == Range(Neighs(s, n))

\* the set of vertices in adj[n][tail[n]..len) of n in s
Suffix(s, n) ==
  {s.adj_list_[n][j] : j \in (s.active_tails_[n] + 1)..Len(s.adj_list_[n])}

\* the bitmap of the set P over the local ids of s
Bitmap(s, P) == [n \in DOMAIN s.active_ |-> n \in P]

NoDuplicates(q) == \A i, j \in DOMAIN q : i # j => q[i] # q[j]

\* the UndoSelfMutate that matches the last InduceFromSelfMutate of the
\* innermost activation record has just been executed
JustUndone == stack # <<>> /\ Top.pc = "loop" /\ Top.i > 0

\* C5: after the UndoSelfMutate that matches an InduceFromSelfMutate, the
\* set of vertices of active_list, the active bitmap, every tail and the set
\* of vertices in the active prefix of every active vertex are what they
\* were immediately before that InduceFromSelfMutate.
C5_UndoRestores ==
  JustUndone =>
    /\ Range(sg.active_list_) = Range(Top.pre.active_list_)
    /\ sg.active_ = Top.pre.active_
    /\ sg.active_tails_ = Top.pre.active_tails_
    /\ \A n \in Range(sg.active_list_) : Prefix(sg, n) = Prefix(Top.pre, n)

\* the undone induction was nested in another one, dropped vertices, and
\* shortened the tail of a vertex it kept
C5_Witness ==
  /\ JustUndone
  /\ Len(stack) >= 2
  /\ Len(Top.post.active_list_) >= 2
  /\ Len(Top.post.active_list_) < Len(Top.pre.active_list_)
  /\ \E n \in Range(Top.post.active_list_) :
       Top.post.active_tails_[n] < Top.pre.active_tails_[n]

\* C6 as claimed: after the matching UndoSelfMutate active_list is, as an
\* ordered list, identical to the pre-induce active_list.
C6_UndoRestoresOrder ==
  JustUndone => sg.active_list_ = Top.pre.active_list_

\* C6 as amended: after the matching UndoSelfMutate active_list is a
\* permutation of the pre-induce active_list (same length, same vertices,
\* none twice): the vertices the induction dropped come last, in the order
\* of the dropped frame.
C6_UndoRestoresPermutation ==
  JustUndone =>
    /\ Len(sg.active_list_) = Len(Top.pre.active_list_)
    /\ NoDuplicates(sg.active_list_)
    /\ \A n \in Range(Top.pre.active_list_) : n \in Range(sg.active_list_)
    /\ LET nd == Len(last_frame_iter(Top.post.dropped_verts_))
           len == Len(sg.active_list_)
       IN SubSeq(sg.active_list_, len - nd + 1, len)
            = last_frame_iter(Top.post.dropped_verts_)

\* the order did change
C6_Witness ==
  /\ JustUndone
  /\ sg.active_list_ # Top.pre.active_list_
  /\ Len(Top.post.active_list_) >= 1

\* the grouped stack holds no frame and no element
IsEmptyStack(gs) == gs.elems_ = <<>> /\ gs.starts_ = <<>>

\* number of activation records in the given states
NumFrames(pcs) == Cardinality({i \in DOMAIN stack : stack[i].pc \in pcs})

\* C7: in both recursions every InduceFromSelfMutate is matched by one
\* UndoSelfMutate (LIFO) and every ActiveUnreachableFromPivot by one
\* PopNonNeighbors: dropped holds one frame per call in progress below the
\* root call, pivot_non_neighs one frame per activation record that is in
\* its loop; when a call returns, the two frame counts and the candidate set
\* are those of its entry, and both stacks are empty when the root returns.
C7_StacksBalanced ==
  pc = "count" /\ stack # <<>> =>
    /\ Len(sg.dropped_verts_.starts_) = Len(stack) - 1
    /\ Len(sg.pivot_non_neighs_.starts_) = NumFrames({"loop", "call"})
    /\ Top.pc = "done" =>
         /\ Len(sg.dropped_verts_.starts_) = Top.entry.nd
         /\ Len(sg.pivot_non_neighs_.starts_) = Top.entry.np
         /\ Range(sg.active_list_) = Top.entry.P
         /\ Len(stack) = 1 =>
              /\ IsEmptyStack(sg.dropped_verts_)
              /\ IsEmptyStack(sg.pivot_non_neighs_)

\* a root call returns after a loop of at least two children
C7_Witness ==
  /\ Len(stack) = 1
  /\ Top.pc = "done"
  /\ Top.span.len >= 2
  /\ Top.i = Top.span.len

\* ActiveUnreachableFromPivot has just returned in the innermost record
JustPartitioned == stack # <<>> /\ Top.pc = "loop" /\ Top.i = 0

\* the elements of the sequence q that satisfy Keep, in the order of q
RECURSIVE Filter(_, _)
Filter(q, Keep) ==
  IF q = <<>> THEN <<>>
  ELSE (IF Head(q) \in Keep THEN <<Head(q)>> ELSE <<>>) \o Filter(Tail(q), Keep)

\* C8: ActiveUnreachableFromPivot(p) pushes one frame that lists, once each
\* and in active_list order, the vertices of active_list that are not in
\* adj[p][0..tail[p]), p among them; afterwards the bitmap is the membership
\* of active_list, and active_list, adj and the tails are unchanged.
C8_UnreachableFrame ==
  JustPartitioned =>
    LET p == Top.pivot_id_r
        before == Top.pre
        wanted == Range(before.active_list_) \ Prefix(before, p)
    IN /\ Len(sg.pivot_non_neighs_.starts_)
            = Len(before.pivot_non_neighs_.starts_) + 1
       /\ last_frame_iter(sg.pivot_non_neighs_)
            = Filter(before.active_list_, wanted)
       /\ SubSeq(sg.pivot_non_neighs_.elems_, 1,
                 Len(before.pivot_non_neighs_.elems_))
            = before.pivot_non_neighs_.elems_
       /\ p \in Range(last_frame_iter(sg.pivot_non_neighs_))
       /\ NoDuplicates(last_frame_iter(sg.pivot_non_neighs_))
       /\ sg.active_ = Bitmap(sg, Range(sg.active_list_))
       /\ sg.active_list_ = before.active_list_
       /\ sg.adj_list_ = before.adj_list_
       /\ sg.active_tails_ = before.active_tails_

\* the pivot has neighbours and non-neighbours, below the root call
C8_Witness ==
  /\ JustPartitioned
  /\ Len(stack) >= 2
  /\ Top.span.len >= 2
  /\ sg.active_tails_[Top.pivot_id_r] >= 1

\* InduceFromSelfMutate has just returned: the child record is at its entry
JustInduced == Len(stack) >= 2 /\ Top.pc = "entry"

\* C9: after InduceFromSelfMutate(v, excl) with v in the candidate set P,
\* active_list holds exactly P' = (N(v) /\ P) minus {n in excl : n < v},
\* active[] is the bitmap of P', the new top frame of dropped holds exactly
\* P \ P', and for every n in P' the prefix adj[n][0..tail[n]) is the set of
\* n's neighbours in P' and the rest of adj[n] lies outside P'.
C9_InducePost ==
  JustInduced =>
    LET par == stack[Len(stack) - 1]
        before == par.pre
        P == Range(before.active_list_)
        Pn == (Prefix(before, par.v_r) \cap P)
                \ {n \in Range(par.excl) : n < par.v_r}
    IN /\ par.v_r \in P
       /\ Range(sg.active_list_) = Pn
       /\ Len(sg.active_list_) = Cardinality(Pn)
       /\ sg.active_ = Bitmap(sg, Pn)
       /\ Len(sg.dropped_verts_.starts_) = Len(before.dropped_verts_.starts_) + 1
       /\ Range(last_frame_iter(sg.dropped_verts_)) = P \ Pn
       /\ Len(last_frame_iter(sg.dropped_verts_)) = Cardinality(P \ Pn)
       /\ \A n \in Pn :
            /\ Prefix(sg, n) = Range(sg.adj_list_[n]) \cap Pn
            /\ Suffix(sg, n) \cap Pn = {}
            /\ Range(sg.adj_list_[n]) = Range(before.adj_list_[n])
            /\ Len(sg.adj_list_[n]) = Len(before.adj_list_[n])

\* the induction was on a vertex that is not the pivot, its exclusion list
\* took a neighbour away, and a kept vertex lost a neighbour
C9_Witness ==
  /\ JustInduced
  /\ LET par == stack[Len(stack) - 1]
     IN /\ par.v_r # par.pivot_id_r
        /\ \E n \in Range(par.excl) :
             n < par.v_r /\ n \in Prefix(par.pre, par.v_r)
        /\ \E n \in Range(sg.active_list_) :
             sg.active_tails_[n] < par.pre.active_tails_[n]

\* InduceFromDAG has just returned: the root record is at its entry
JustInducedFromDAG == Len(stack) = 1 /\ Top.pc = "entry"

\* the global vertex of local id a under root u
Global(u, a) == dag[u][a + 1]

\* the DAG has an edge between x and y, in either direction
DagEdge(x, y) == y \in Range(dag[x]) \/ x \in Range(dag[y])

\* number of positions of the sequence q that hold x
Occurrences(q, x) == Cardinality({i \in DOMAIN q : q[i] = x})

\* C10: after InduceFromDAG(dag, u), with d = out_degree(u): the local ids
\* 0..d-1 stand for out_neigh(u) in ascending global order, active_list is
\* [0, ..., d-1], all active; b occurs in adj[a], once, iff the global
\* vertices of a and b are joined by a DAG edge in either direction; adj is
\* symmetric without self-loops, tail[a] = |adj[a]|, both stacks are empty.
C10_InduceFromDAGPost ==
  JustInducedFromDAG =>
    LET d == Len(dag[v])
        L == 0..(d - 1)
    IN /\ \A a, b \in L : a < b => Global(v, a) < Global(v, b)
       /\ sg.active_list_ = [i \in 1..d |-> i - 1]
       /\ sg.active_ = [a \in L |-> TRUE]
       /\ DOMAIN sg.adj_list_ = L
       /\ DOMAIN sg.active_tails_ = L
       /\ \A a \in L :
            /\ Range(sg.adj_list_[a]) \subseteq L \ {a}
            /\ sg.active_tails_[a] = Len(sg.adj_list_[a])
            /\ \A b \in L \ {a} :
                 /\ Occurrences(sg.adj_list_[a], b)
                      = IF DagEdge(Global(v, a), Global(v, b)) THEN 1 ELSE 0
                 /\ Occurrences(sg.adj_list_[a], b)
                      = Occurrences(sg.adj_list_[b], a)
       /\ IsEmptyStack(sg.dropped_verts_)
       /\ IsEmptyStack(sg.pivot_non_neighs_)

\* a root with three out-neighbours or more, with edges among them that
\* leave the smaller and the larger global id
C10_Witness ==
  /\ JustInducedFromDAG
  /\ Len(dag[v]) >= 3
  /\ \E a, b \in 0..(Len(dag[v]) - 1) :
       a < b /\ Global(v, b) \in Range(dag[Global(v, a)])
  /\ \E a, b \in 0..(Len(dag[v]) - 1) :
       a < b /\ Global(v, a) \in Range(dag[Global(v, b)])

\* Directionalize has just returned the DAG of the current execution
JustDirected(ord) ==
  pc = "count" /\ runs[run].ord = ord /\ v = 0 /\ stack = <<>>

\* the pairs <<x, y>> with y an out-neighbour of x in the DAG
DagArcs ==
  {p \in (DOMAIN dag) \X (DOMAIN dag) : p[2] \in Range(dag[p[1]])}

\* transitive closure of a relation given as a set of pairs
RECURSIVE TransitiveClosure(_)
TransitiveClosure(R) ==
  LET R2 == R \cup {<<x[1][1], x[2][2]>> :
                       x \in {y \in R \X R : y[1][2] = y[2][1]}}
  IN IF R2 = R THEN R ELSE TransitiveClosure(R2)

\* C11: the graph Directionalize returns (either branch) is an acyclic
\* orientation of the input: every undirected edge {u, w} is in exactly one
\* of out_neigh(u), out_neigh(w), nothing else is, there is no cycle, and
\* every out_neigh(u) is strictly ascending without self-loop.
C11_AcyclicOrientation ==
  JustDirected("degree") \/ JustDirected("core") =>
    /\ DOMAIN dag = Nodes(g)
    /\ \A e \in g.e : \E u, w \in e :
         /\ u # w
         /\ w \in Range(dag[u])
         /\ u \notin Range(dag[w])
    /\ \A u \in Nodes(g) : Range(dag[u]) \subseteq NeighSet(g, u)
    /\ \A u \in Nodes(g) : <<u, u>> \notin TransitiveClosure(DagArcs)
    /\ \A u \in Nodes(g) :
         /\ u \notin Range(dag[u])
         /\ \A i, j \in DOMAIN dag[u] : i < j => dag[u][i] < dag[u][j]

\* the core branch directed a graph with a triangle, not as the degree
\* branch would, and some vertex got two out-neighbours or more
C11_Witness ==
  /\ JustDirected("core")
  /\ dag # DirectGraphDegree(g)
  /\ NumCliques(g, 3) >= 1
  /\ \E u \in Nodes(g) : Len(dag[u]) >= 2

\* lexicographic "less than" on tuples of integers of the same length
RECURSIVE LexLess(_, _)
LexLess(a, b) ==
  IF a = <<>> \/ b = <<>> THEN FALSE
  ELSE \/ Head(a) < Head(b)
       \/ (Head(a) = Head(b) /\ LexLess(Tail(a), Tail(b)))

\* C18 as claimed: DirectGraphCore keeps u -> w for an undirected edge
\* {u, w} iff (rank[u], -deg(u), -u) is lexicographically smaller than
\* (rank[w], -deg(w), -w), deg being the degree in the input graph.
C18_NegatedTriple ==
  JustDirected("core") =>
    LET rank == CoreApprox(g)
    IN \A u, w \in Nodes(g) :
         {u, w} \in g.e /\ u # w =>
           (w \in Range(dag[u])
              <=> LexLess(<<rank[u], 0 - out_degree(g, u), 0 - u>>,
                          <<rank[w], 0 - out_degree(g, w), 0 - w>>))

\* C18 as amended: DirectGraphCore keeps u -> w for an undirected edge
\* {u, w} iff (rank[u], deg(u), u) is lexicographically smaller than
\* (rank[w], deg(w), w): lower rank first, lower degree on ties, lower id
\* on further ties.
C18_RankDegreeId ==
  JustDirected("core") =>
    LET rank == CoreApprox(g)
    IN \A u, w \in Nodes(g) :
         {u, w} \in g.e /\ u # w =>
           (w \in Range(dag[u])
              <=> LexLess(<<rank[u], out_degree(g, u), u>>,
                          <<rank[w], out_degree(g, w), w>>))

\* the three components each decide an edge: one edge joins two ranks, one
\* joins two vertices of equal rank and different degrees against their
\* ids, one joins two vertices of equal rank and equal degree
C18_Witness ==
  /\ JustDirected("core")
  /\ LET rank == CoreApprox(g)
     IN /\ \E u, w \in Nodes(g) : {u, w} \in g.e /\ rank[u] < rank[w]
        /\ \E u, w \in Nodes(g) :
             /\ {u, w} \in g.e /\ u < w /\ rank[u] = rank[w]
             /\ out_degree(g, u) > out_degree(g, w)
             /\ u \in Range(dag[w])
        /\ \E u, w \in Nodes(g) :
             /\ {u, w} \in g.e /\ u < w /\ rank[u] = rank[w]
             /\ out_degree(g, u) = out_degree(g, w)

\* C19: DirectGraphDegree keeps u -> w for an undirected edge {u, w} iff
\* (deg(w), w) is lexicographically greater than (deg(u), u); out_neigh(u)
\* of the DAG is exactly the set of the neighbours of u with a greater
\* (degree, id) pair.
C19_DegreeIdOrder ==
  JustDirected("degree") =>
    /\ \A u, w \in Nodes(g) :
         {u, w} \in g.e /\ u # w =>
           (w \in Range(dag[u])
              <=> LexLess(<<out_degree(g, u), u>>, <<out_degree(g, w), w>>))
    /\ \A u \in Nodes(g) :
         Range(dag[u])
           = {w \in NeighSet(g, u) :
                LexLess(<<out_degree(g, u), u>>, <<out_degree(g, w), w>>)}

\* one edge is directed by the degrees, against the ids, and one by the ids
C19_Witness ==
  /\ JustDirected("degree")
  /\ \E u, w \in Nodes(g) :
       /\ {u, w} \in g.e /\ u < w
       /\ out_degree(g, u) > out_degree(g, w)
       /\ u \in Range(dag[w])
  /\ \E u, w \in Nodes(g) :
       /\ {u, w} \in g.e /\ u < w
       /\ out_degree(g, u) = out_degree(g, w)
       /\ w \in Range(dag[u])

\* C20 as claimed: on a graph with n >= 1 vertices and no edge the pipeline
\* (Directionalize with its CoreIsAdvantageous heuristic, then the
\* counting) completes normally; the sweep yields counts[1] = n and
\* counts[s] = 0 for every s >= 2, and the fixed-k counter yields 0 for
\* every k >= 2.
C20_EdgelessPipeline ==
  g.n >= 1 /\ g.e = {} =>
    /\ pc # "abort"
    /\ \A r \in Finished("sweep") :
         /\ max_k >= 1 => result[r][1] = NatOfInt(g.n)
         /\ \A s \in 2..max_k : result[r][s] = Zero
    /\ \A r \in Finished("fixed") : k >= 2 => result[r] = Zero

\* C13: during the recursion on a root of out-degree d the number of
\* elements of pivot_non_neighs, all nested frames together, never exceeds
\* d, which InduceFromDAG reserved; so the capacity of the backing array is
\* the one the root call started with: no push has reallocated it while a
\* frame handed out by ActiveUnreachableFromPivot was in use.
C13_NoReallocation ==
  pc = "count" /\ stack # <<>> =>
    /\ Len(sg.pivot_non_neighs_.elems_) <= Len(dag[v])
    /\ Len(dag[v]) <= sg.pivot_non_neighs_.capacity_
    /\ sg.pivot_non_neighs_.capacity_ = stack[1].entry.capacity

\* two nested frames or more fill the reserved capacity to the last place,
\* on a root that needed a larger capacity than the roots before it
C13_Witness ==
  /\ pc = "count"
  /\ Len(stack) >= 2
  /\ Len(sg.pivot_non_neighs_.starts_) >= 2
  /\ Len(dag[v]) >= 3
  /\ Len(sg.pivot_non_neighs_.elems_) = Len(dag[v])
  /\ sg.pivot_non_neighs_.capacity_ = Len(dag[v])

\* C14 (as stated): a query on the multiplicative path (n >= 100, 0 <= k <= n)
\* whose binomial is representable in count_t returns exactly that binomial.
C14_MultiplicativeExact ==
  comb.pc = "returned" /\ comb.qn >= kNumPrecompute /\ Representable(comb.exact)
    => comb.ret = comb.exact

\* the table entry the query (qn, qk) reads, in unbounded arithmetic
RefEntry == comb.ref[comb.qn + 1][comb.qk + 1]

\* C15: for 0 <= k <= n < 100 the query returns the entry of the table, the
\* entry is C(n, k) modulo 2^CountBits, and it is C(n, k) itself for n <= 60.
C15_TableIsPascalModW ==
  comb.pc = "returned" /\ comb.qn < kNumPrecompute =>
    /\ comb.ret = comb.memo[comb.qn + 1][comb.qk + 1]
    /\ comb.ret = ToCount(RefEntry)
    /\ comb.qn <= 60 => comb.ret = RefEntry

\* a query answered from the table whose binomial does not fit count_t
C15_Witness ==
  /\ comb.pc = "returned"
  /\ comb.qn < kNumPrecompute
  /\ ~Representable(RefEntry)
  /\ comb.ret # Zero

\* the number of s-cliques of g whose first vertex in the order of the DAG
\* is u: u together with s - 1 pairwise adjacent out-neighbours of u
RootCliques(u, s) ==
  Cardinality({S \in SUBSET Range(dag[u]) :
                 Cardinality(S) = s - 1 /\ IsClique(g, S)})

RECURSIVE SumRootCliques(_, _)
SumRootCliques(U, s) ==
  IF U = {} THEN 0
  ELSE LET u == CHOOSE x \in U : TRUE
       IN RootCliques(u, s) + SumRootCliques(U \ {u}, s)

\* the iterations of the root loop handed to thread w so far
RootsOf(w) ==
  {team.log[i].root : i \in {j \in DOMAIN team.log : team.log[j].worker = w}}

\* the private accumulators of thread w
LocalCount(w) == IF w = team.tid THEN count ELSE team.ctx[w].count

LocalCounts(w) == IF w = team.tid THEN counts ELSE team.ctx[w].counts

\* C12: under every schedule and interleaving each root of the DAG is handed
\* out once, to one thread; between two roots a thread's own accumulator
\* holds exactly the contributions of the roots it was handed; and the merged
\* result (reduction in fixed-k, per-entry atomic adds in the sweep) is the
\* sum of the contributions of all roots.
C12_ParallelDriver ==
  /\ \A i, j \in DOMAIN team.log :
       team.log[i].root = team.log[j].root => i = j
  /\ (\A w \in Workers : team.wpc[w] \in {"merge", "end"}) =>
       {team.log[i].root : i \in DOMAIN team.log} = Nodes(g)
  /\ \A w \in Workers :
       team.wpc[w] # "body" =>
         IF variant = "fixed"
         THEN LocalCount(w) = NatOfInt(SumRootCliques(RootsOf(w), k))
         ELSE \A s \in 0..max_k :
                LocalCounts(w)[s] = NatOfInt(SumRootCliques(RootsOf(w), s))
  /\ pc = "done" =>
       IF variant = "fixed"
       THEN result[1] = NatOfInt(SumRootCliques(Nodes(g), k))
       ELSE \A s \in 0..max_k :
              result[1][s] = NatOfInt(SumRootCliques(Nodes(g), s))

\* a sweep in which the roots of one thread are not consecutive, both
\* threads found triangles, and both are in the middle of their merge loops
C12_Witness ==
  /\ pc = "count"
  /\ variant = "sweep"
  /\ max_k >= 3
  /\ \A w \in Workers :
       /\ team.wpc[w] = "merge"
       /\ team.mi[w] \in 1..max_k
       /\ LocalCounts(w)[3] # Zero
  /\ \E i, j, l \in DOMAIN team.log :
       /\ i < j /\ j < l
       /\ team.log[i].worker = team.log[l].worker
       /\ team.log[i].worker # team.log[j].worker

\* every thread waits at the barrier that ends an iteration of the while loop
IterationOver == \A t \in Threads : Th(t).pc = "b208"

C16_Safe ==
  /\ IterationOver /\ peel.level >= 1 => peel.ranked_now >= 1
  /\ \A u \in Nodes(g) : peel.writes[u] <= 1
  /\ peel.pc = "done" =>
       \A u \in Nodes(g) : peel.rankings[u] >= 0 /\ peel.writes[u] = 1

\* C16: every iteration of CoreApprox at level >= 1 ranks at least one
\* vertex; under fair scheduling CoreApprox returns, for every graph and every
\* epsilon; no vertex is ranked twice and at the return every vertex has a
\* rank >= 0.
C16_PeelTerminates == []C16_Safe /\ <>(peel.pc = "done")

\* an iteration at level >= 1 is over in which the threshold of the average
\* (at most zero) was below every remaining degree, so that only the lift to
\* min_deg_active ranked a vertex, with vertices left for later
C16_Witness ==
  /\ IterationOver
  /\ peel.level >= 1
  /\ peel.epsilon = <<-3, 2>>
  /\ peel.chunk = 1
  /\ peel.min_deg_active >= 1
  /\ peel.ranked_now >= 1
  /\ peel.num_remaining >= 1

\* C17: whatever the interleaving of the threads and the dealing of the
\* vertices to them, CoreApprox with the epsilon of Directionalize returns
\* the ranking of the sequential peeling, so that DirectGraphCore orients
\* every edge the same way in every run.
C17_SameDag ==
  peel.pc = "done" /\ peel.epsilon = <<-1, 2>> =>
    /\ peel.rankings = CoreApprox(g)
    /\ DirectGraphCore(g, peel.rankings) = DirectGraphCore(g, CoreApprox(g))

\* a run of three levels or more in which both threads removed vertices
C17_Witness ==
  /\ peel.pc = "done"
  /\ peel.epsilon = <<-1, 2>>
  /\ peel.chunk = 1
  /\ peel.level >= 3
  /\ \E u, w \in Nodes(g) :
       /\ u % NumThreads # w % NumThreads
       /\ peel.rankings[u] >= 1
       /\ peel.rankings[w] >= 1
       /\ {u, w} \in g.e

\* ------------------------------------------------ SubGraph out of protocol
\* A client of one SubGraph that calls its public operations in any order,
\* also in the orders PivotRecurse never uses: FindPivot with no candidate,
\* UndoSelfMutate and PopNonNeighbors with no frame to pop, and
\* ActiveUnreachableFromPivot on top of frames that were never popped, whose
\* pushes outgrow the capacity InduceFromDAG reserved.
MaxApi == 3

MaxFrames == 2

ApiGraphs == {[n |-> MaxApi, e |-> E] : E \in SUBSET AllEdges(MaxApi)}

InitApi ==
  /\ IdlePipeline
  /\ \E H \in ApiGraphs : \E u \in 0..MaxApi :
       api = [pc |-> "run",
              sg |-> InduceFromDAG(EmptySubGraph, DagOf(H), u),
              pivot_id_r |-> -1,
              dangling |-> 0,         \* frames whose span points to freed storage
              violation |-> "none",   \* history: the first broken precondition
              calls |-> 0]            \* history: operations that returned
  /\ comb = Unused
  /\ team = Unused
  /\ peel = Unused
  /\ driver = Unused
  /\ adv = Unused

\* What an operation with undefined behaviour leaves behind.  Nothing in the
\* code tests the broken precondition, so the build either faults on the bad
\* access or goes on with whatever the access produced.
Undefined(what) ==
  \E outcome \in {"terminated", "corrupted"} :
    api' = [api EXCEPT !.pc = outcome,
                       !.violation = IF @ = "none" THEN what ELSE @]

\* SubGraph::FindPivot: assert(NumActive() > 0) aborts the process (the
\* Makefile does not define NDEBUG)
ApiFindPivot ==
  /\ api.pc = "run"
  /\ IF NumActive(api.sg) > 0
     THEN api' = [api EXCEPT !.pivot_id_r = FindPivot(api.sg),
                             !.calls = Min(@ + 1, MaxFrames)]
     ELSE api' = [api EXCEPT !.pc = "terminated",
                             !.violation = IF @ = "none" THEN "FindPivot" ELSE @]
  /\ UNCHANGED <<pipeline, comb, team, peel, driver, adv>>

\* SubGraph::ActiveUnreachableFromPivot.  The assertion of
\* GroupedStack::push_back on the capacity is a comment, so a push into the
\* full backing array reallocates it and returns; the spans of the frames
\* that were open before the call then point to the freed array.
ApiActiveUnreachableFromPivot ==
  /\ api.pc = "run"
  /\ api.pivot_id_r \in DOMAIN api.sg.active_
  /\ Len(api.sg.pivot_non_neighs_.starts_) < MaxFrames
  /\ LET s == ActiveUnreachableFromPivot(api.sg, api.pivot_id_r)
         open == Len(api.sg.pivot_non_neighs_.starts_)
         moved == s.pivot_non_neighs_.capacity_
                    # api.sg.pivot_non_neighs_.capacity_
     IN api' = [api EXCEPT
                  !.sg = s,
                  !.dangling = IF moved THEN open ELSE @,
                  !.violation = IF @ = "none" /\ moved /\ open > 0
                                THEN "reallocation" ELSE @,
                  !.calls = Min(@ + 1, MaxFrames)]
  /\ UNCHANGED <<pipeline, comb, team, peel, driver, adv>>

\* SubGraph::InduceFromSelfMutate(v, span) with the span of the last frame of
\* pivot_non_neighs_; the span is read, which is undefined when it dangles
ApiInduceFromSelfMutate ==
  /\ api.pc = "run"
  /\ api.sg.pivot_non_neighs_.starts_ # <<>>
  /\ Len(api.sg.dropped_verts_.starts_) < MaxFrames
  /\ IF api.dangling = Len(api.sg.pivot_non_neighs_.starts_)
     THEN Undefined("reallocation")
     ELSE \E v_r \in Range(last_frame_iter(api.sg.pivot_non_neighs_))
                       \cap Range(api.sg.active_list_) :
            api' = [api EXCEPT
                      !.sg = InduceFromSelfMutate(api.sg, v_r,
                               last_frame_iter(api.sg.pivot_non_neighs_)),
                      !.calls = Min(@ + 1, MaxFrames)]
  /\ UNCHANGED <<pipeline, comb, team, peel, driver, adv>>

\* SubGraph::UndoSelfMutate: last_frame_iter and pop_frame of dropped_verts_
\* call starts_.back() and starts_.pop_back() on a vector nothing checks
ApiUndoSelfMutate ==
  /\ api.pc = "run"
  /\ IF api.sg.dropped_verts_.starts_ # <<>>
     THEN api' = [api EXCEPT !.sg = UndoSelfMutate(api.sg),
                             !.calls = Min(@ + 1, MaxFrames)]
     ELSE Undefined("UndoSelfMutate")
  /\ UNCHANGED <<pipeline, comb, team, peel, driver, adv>>

\* SubGraph::PopNonNeighbors: pop_frame of pivot_non_neighs_
ApiPopNonNeighbors ==
  /\ api.pc = "run"
  /\ IF api.sg.pivot_non_neighs_.starts_ # <<>>
     THEN api' = [api EXCEPT
                    !.sg = PopNonNeighbors(api.sg),
                    !.dangling =
                      Min(@, Len(api.sg.pivot_non_neighs_.starts_) - 1),
                    !.calls = Min(@ + 1, MaxFrames)]
     ELSE Undefined("PopNonNeighbors")
  /\ UNCHANGED <<pipeline, comb, team, peel, driver, adv>>

NextApi ==
  \/ ApiFindPivot
  \/ ApiActiveUnreachableFromPivot
  \/ ApiInduceFromSelfMutate
  \/ ApiUndoSelfMutate
  \/ ApiPopNonNeighbors

SpecApi == InitApi /\ [][NextApi]_vars

\* C21: each of the three internal-invariant violations (FindPivot on an
\* empty candidate set, UndoSelfMutate or PopNonNeighbors with no open frame,
\* a push that reallocates under an outstanding frame view) is detected and
\* ends the program: once the client has broken one of the preconditions the
\* program is terminated and never goes on.
C21_ViolationsTerminate ==
  api.pc # "unused" /\ api.violation # "none" => api.pc = "terminated"

\* ------------------------------------------------------------------ main
\* main of pivotscale and of pivotscale-sweep around the pipeline: the
\* command line is one without a graph input, one with -h, or one that names
\* a graph; the graph MakeGraph builds is directed or not.  The runs are the
\* ones without -m (max_k = clique_size).
MainNodes == 3

MainGraphs ==
  {[n |-> MainNodes, e |-> E] : E \in SUBSET AllEdges(MainNodes)}

InitMain ==
  /\ g \in MainGraphs
  /\ dag = [u \in Nodes(g) |-> <<>>]
  /\ \E o \in {"degree", "core"} : \E vr \in {"fixed", "sweep"} :
       runs = <<[ord |-> o, variant |-> vr]>>
  /\ run = 1
  /\ k \in 1..MaxK
  /\ max_k = k
  /\ pc = "main"
  /\ v = 0
  /\ sg = EmptySubGraph
  /\ stack = <<>>
  /\ count = Zero
  /\ counts = ZeroCounts
  /\ result = <<>>
  /\ \E a \in {"none", "help", "graph"} : \E d \in BOOLEAN :
       driver = [pc |-> "main",
                 args |-> a,        \* what the command line holds
                 directed |-> d,    \* g.directed() of the graph MakeGraph builds
                 code |-> 0,        \* exit status, once pc = "exited"
                 rows |-> <<>>]     \* the count rows printed: <<k, count>>
  /\ comb = Unused
  /\ team = Unused
  /\ peel = Unused
  /\ api = Unused
  /\ adv = Unused

\* cli.ParseArgs() and the test of its result.  HandleArg calls PrintUsage on
\* -h, which ends the process with std::exit(0) inside ParseArgs; with no -f
\* and no -g/-u ParseArgs returns false and main returns -1.
MainParseArgs ==
  /\ driver.pc = "main"
  /\ driver' = CASE driver.args = "help" ->
                      [driver EXCEPT !.pc = "exited", !.code = 0]
                 [] driver.args = "none" ->
                      [driver EXCEPT !.pc = "exited", !.code = -1]
                 [] OTHER -> [driver EXCEPT !.pc = "make"]
  /\ UNCHANGED <<pipeline, comb, team, peel, api, adv>>

\* Graph g = b.MakeGraph(); if (g.directed()) std::exit(-2); else main goes
\* on to Ordering::Directionalize
MainMakeGraph ==
  /\ driver.pc = "make"
  /\ IF driver.directed
     THEN /\ driver' = [driver EXCEPT !.pc = "exited", !.code = -2]
          /\ UNCHANGED pc
     ELSE /\ driver' = [driver EXCEPT !.pc = "run"]
          /\ pc' = "direct"
  /\ UNCHANGED <<g, dag, runs, run, k, max_k, v, sg, stack, count, counts, result>>
  /\ UNCHANGED <<comb, team, peel, api, adv>>

\* the rows PrintCliqueCounts prints: one per size with a non-zero count
RECURSIVE PrintCliqueCounts(_, _)
PrintCliqueCounts(cs, s) ==
  IF s \notin DOMAIN cs THEN <<>>
  ELSE (IF cs[s] # Zero THEN <<(<<s, cs[s]>>)>> ELSE <<>>)
         \o PrintCliqueCounts(cs, s + 1)

\* the tail of main after PivotCount: the count row of pivotscale, the table
\* of pivotscale-sweep, return 0
MainPrint ==
  /\ driver.pc = "run"
  /\ pc = "done"
  /\ driver' = [driver EXCEPT
                  !.pc = "exited",
                  !.code = 0,
                  !.rows = IF runs[1].variant = "fixed"
                           THEN <<(<<k, result[1]>>)>>
                           ELSE PrintCliqueCounts(result[1], 0)]
  /\ UNCHANGED <<pipeline, comb, team, peel, api, adv>>

NextMain ==
  \/ MainParseArgs
  \/ MainMakeGraph
  \/ DirectionalizeDegree \/ DirectionalizeCore \/ DirectionalizeAbort
  \/ NextCount
  \/ MainPrint

SpecMain == InitMain /\ [][NextMain]_vars

\* the execution has ended: main returned or exit was called, or the process
\* ended abnormally inside Directionalize
MainOver == driver.pc = "exited" \/ pc = "abort"

\* everything main does between MakeGraph and its return has happened
RanToCompletion ==
  /\ pc = "done"
  /\ Len(result) = 1
  /\ driver.code = 0
  /\ runs[1].variant = "fixed" => Len(driver.rows) = 1

\* C22: both drivers exit with -1 when argument parsing fails and with -2
\* when the graph built is directed, in which case neither Directionalize
\* nor the counting has run and no count row is printed; in every other
\* case the driver runs the ordering and the counting to completion, prints
\* the counts and exits with 0.
C22_ExitCodes ==
  (driver.pc # "unused" /\ MainOver) =>
    CASE driver.args = "none" -> driver.pc = "exited" /\ driver.code = -1
      [] driver.args = "graph" /\ driver.directed ->
           /\ driver.pc = "exited" /\ driver.code = -2
           /\ pc = "main" /\ result = <<>> /\ driver.rows = <<>>
      [] OTHER -> driver.pc = "exited" /\ RanToCompletion

\* ------------------------------------------------ deeper recursions
\* SpecDeep is SpecDag on every graph H of MaxDeep vertices, whatever the
\* numbering: the candidate set of the root has MaxDeep vertices, so that a
\* record two levels down still has a frame of three vertices, taken from an
\* active_list that an induction has permuted.
MaxDeep == 5

DeepGraphs == {[n |-> MaxDeep, e |-> E] : E \in SUBSET AllEdges(MaxDeep)}

InitDeep ==
  /\ \E H \in DeepGraphs :
       /\ dag = DagOf(H)
       /\ g = [n |-> H.n + 1,
               e |-> {{0, w} : w \in 1..H.n}
                     \cup {{u + 1, w + 1} : <<u, w>> \in
                             {x \in Nodes(H) \X Nodes(H) : {x[1], x[2]} \in H.e}}]
  /\ runs = DagRuns
  /\ run = 1
  /\ k \in 1..MaxK
  /\ max_k = k
  /\ pc = "count"
  /\ v = 0
  /\ sg = EmptySubGraph
  /\ stack = <<>>
  /\ count = Zero
  /\ counts = ZeroCounts
  /\ result = <<>>
  /\ comb = Unused
  /\ team = Unused
  /\ peel = Unused
  /\ api = Unused
  /\ driver = Unused
  /\ adv = Unused

SpecDeep == InitDeep /\ [][NextCount]_vars

\* C23 as claimed: when the loop over the non-neighbour frame NN recurses
\* into a vertex v that is not the pivot, no element of NN at an earlier
\* position of the frame (visited earlier in the loop) belongs to the
\* candidate set of the child, the one InduceFromSelfMutate(v, NN) produced.
C23_EarlierExcluded ==
  JustInduced =>
    LET par == stack[Len(stack) - 1]
    IN par.v_r # par.pivot_id_r =>
         \A j \in 1..par.i : par.excl[j] \notin Range(sg.active_list_)

\* C23 as amended: the child's candidate set holds no element of NN with an
\* id below v, whatever its position in the frame; an element of NN with an
\* id above v stays in the child when it is a neighbour of v among the
\* candidates.
C23_SmallerIdExcluded ==
  JustInduced =>
    LET par == stack[Len(stack) - 1]
    IN par.v_r # par.pivot_id_r =>
         \A j \in DOMAIN par.excl :
           par.excl[j] \in Range(sg.active_list_)
             <=> /\ par.excl[j] > par.v_r
                 /\ par.excl[j] \in Prefix(par.pre, par.v_r)

\* a child that keeps an element of NN the loop visited before v
C23_Witness ==
  /\ JustInduced
  /\ LET par == stack[Len(stack) - 1]
     IN /\ par.v_r # par.pivot_id_r
        /\ \E j \in 1..par.i :
             /\ par.excl[j] # par.pivot_id_r
             /\ par.excl[j] \in Range(sg.active_list_)

\* a SubGraph is loaded and no operation on it is under way
Loaded == pc = "count" /\ stack # <<>>

\* C24 as claimed: between the public operations of SubGraph, for every
\* local vertex n that InduceFromDAG admitted, in the candidate set or not,
\* every id in adj[n][0..tail[n]) is active and every id in
\* adj[n][tail[n]..len) is inactive.
C24_TailPartitionAll ==
  Loaded =>
    \A n \in DOMAIN sg.adj_list_ :
      /\ \A w \in Prefix(sg, n) : sg.active_[w]
      /\ \A w \in Suffix(sg, n) : ~sg.active_[w]

\* C24 as amended: between the public operations of SubGraph, for every
\* vertex n of the candidate set (active_list), every id in
\* adj[n][0..tail[n]) is active and every id in adj[n][tail[n]..len) is
\* inactive.  A vertex outside the candidate set keeps the tail it had when
\* it was dropped.
C24_TailPartition ==
  Loaded =>
    \A n \in Range(sg.active_list_) :
      /\ \A w \in Prefix(sg, n) : sg.active_[w]
      /\ \A w \in Suffix(sg, n) : ~sg.active_[w]

\* after an undo inside a child: a candidate with active and with inactive
\* neighbours, next to a dropped vertex whose prefix holds an inactive one
C24_Witness ==
  /\ JustUndone
  /\ Len(stack) >= 2
  /\ \E n \in Range(sg.active_list_) :
       Prefix(sg, n) # {} /\ Suffix(sg, n) # {}
  /\ \E n \in DOMAIN sg.adj_list_ \ Range(sg.active_list_) :
       \E w \in Prefix(sg, n) : ~sg.active_[w]

\* C25: between the public operations of SubGraph, as the recursion issues
\* them after InduceFromDAG, active_list holds no vertex twice and active[n]
\* is true exactly for the local ids n of active_list.
C25_ActiveListIsBitmap ==
  Loaded =>
    /\ NoDuplicates(sg.active_list_)
    /\ \A n \in DOMAIN sg.active_ :
         sg.active_[n] <=> n \in Range(sg.active_list_)
    /\ Range(sg.active_list_) \subseteq DOMAIN sg.active_

\* in a child, after a frame was pushed for a pivot with neighbours, and
\* with an active_list that an earlier undo of the parent left out of order
C25_Witness ==
  /\ Len(stack) >= 2
  /\ Top.pc = "loop"
  /\ sg.active_tails_[Top.pivot_id_r] >= 1
  /\ stack[Len(stack) - 1].i >= 1
  /\ \E n \in DOMAIN sg.active_ : ~sg.active_[n]
  /\ \E i \in 1..(Len(sg.active_list_) - 1) :
       sg.active_list_[i] > sg.active_list_[i + 1]

\* the vertices CoreApprox has not ranked yet
Unranked == {u \in Nodes(g) : peel.rankings[u] = -1}

\* the sum of f over the set S
RECURSIVE SumOver(_, _)
SumOver(S, f) ==
  IF S = {} THEN 0
  ELSE LET u == CHOOSE x \in S : TRUE
       IN f[u] + SumOver(S \ {u}, f)

\* an iteration of the while loop is about to start: every thread is past
\* the barrier that ends the iteration before (or enters the parallel
\* region) and none is past the barrier at the top of the loop
IterationStart ==
  /\ peel.pc = "run"
  /\ \A t \in Threads : Th(t).pc \in {"inc", "while", "b135"}

\* C26: at the start of every peeling iteration of CoreApprox, whatever the
\* interleaving of the threads was: curr_degree[u] is the number of unranked
\* neighbours of u for every unranked u, active_degree_total is the sum of
\* curr_degree over the unranked vertices, and num_remaining is the number
\* of unranked vertices.
C26_PeelCounters ==
  IterationStart =>
    /\ \A u \in Unranked :
         peel.curr_degree[u] = Cardinality(NeighSet(g, u) \cap Unranked)
    /\ peel.active_degree_total = SumOver(Unranked, peel.curr_degree)
    /\ peel.num_remaining = Cardinality(Unranked)

\* the start of a third iteration, after both threads ranked vertices, with
\* unranked vertices that lost neighbours and others that are still joined
C26_Witness ==
  /\ IterationStart
  /\ peel.level >= 2
  /\ peel.num_remaining >= 2
  /\ peel.active_degree_total >= 2
  /\ \E u \in Unranked : peel.curr_degree[u] < out_degree(g, u)
  /\ \E u, w \in Nodes(g) :
       /\ u % NumThreads # w % NumThreads
       /\ peel.rankings[u] >= 0
       /\ peel.rankings[w] >= 0

\* every thread is between the barrier that follows the scan (line 174) and
\* the barrier that follows the selection (line 187)
AfterScan ==
  /\ peel.pc = "run"
  /\ \A t \in Threads : Th(t).pc \in {"thresh", "select", "b187"}

\* the vertices held in the remaining list of some thread
Remaining == UNION {Range(Th(t).remaining) : t \in Threads}

\* the least curr_degree over the remaining lists of all threads
MinRemaining ==
  LET D == {peel.curr_degree[u] : u \in Remaining}
  IN CHOOSE m \in D : \A x \in D : m <= x

\* C27: within one iteration of CoreApprox at level >= 1, whatever the
\* interleaving of the compare-and-swap loops, min_deg_active only
\* decreases after the single construct has reset it, and once every thread
\* is past the barrier that follows the scan it is the minimum of
\* curr_degree[u] over the vertices of the remaining lists of all threads.
C27_MinDegActive ==
  /\ [][peel.pc = "run" /\ peel'.singles = peel.singles
          => peel'.min_deg_active <= peel.min_deg_active]_vars
  /\ [](AfterScan /\ peel.level >= 1 =>
          /\ Remaining # {}
          /\ peel.min_deg_active = MinRemaining)

\* both threads took part in the reduction: one lowered min_deg_active and
\* the other, which had read the lowered value or lost a compare-and-swap
\* against it, lowered it again
C27_Witness ==
  /\ AfterScan
  /\ peel.level >= 1
  /\ \A t \in Threads : Th(t).remaining # <<>>
  /\ \E t \in Threads :
       /\ Th(t).prior_min < g.n
       /\ Th(t).local_min_deg < Th(t).prior_min
       /\ peel.min_deg_active = Th(t).local_min_deg

\* the positions at which a thread waits at a barrier (lines 135, 141 (end
\* of the single construct), 174, 187, 208)
BarrierPcs == {"b135", "bsingle", "b174", "b187", "b208"}

\* the positions of the level-0 branch and of the later-level branch
LevelZeroPcs == {"l0", "l0n", "l0r"}

LaterLevelPcs ==
  {"scan", "cas", "b174", "thresh", "select", "b187", "rm0", "rm", "rmn", "rmr"}

\* thread t has made the reads of the top of its current iteration
HasReadCounters(t) == Th(t).pc # "while"

\* thread t has read level in its current iteration
HasReadLevel(t) == Th(t).pc \notin {"while", "b135", "single", "bsingle", "branch", "end"}

\* the positions at which the threshold is the one of the average
BeforeLift(t) ==
  Th(t).pc \in {"b135", "single", "bsingle", "branch", "scan", "cas", "b174",
                "thresh"} \cup LevelZeroPcs

C28_Safe ==
  peel.pc = "run" =>
    \A t, u \in Threads :
      \* no read of a shared counter next to a write of it
      /\ Th(t).pc = "while" => Th(u).pc \notin {"single", "acc1", "acc2"}
      /\ Th(t).pc \in {"branch", "l0", "select"} => Th(u).pc # "inc"
      /\ Th(t).it = Th(u).it =>
           \* the same values read
           /\ HasReadCounters(t) /\ HasReadCounters(u) =>
                /\ Th(t).seen_num = Th(u).seen_num
                /\ Th(t).pc # "end" /\ Th(u).pc # "end" =>
                     Th(t).seen_total = Th(u).seen_total
           /\ HasReadLevel(t) /\ HasReadLevel(u) =>
                Th(t).seen_level = Th(u).seen_level
           \* the same threshold, before and after the lift
           /\ Th(t).pc # "while" /\ Th(u).pc # "while"
                /\ Th(t).pc # "end" /\ Th(u).pc # "end"
                /\ BeforeLift(t) = BeforeLift(u) =>
                Th(t).deg_thresh = Th(u).deg_thresh
           \* the same branch and the same exit from the loop
           /\ ~(Th(t).pc \in LevelZeroPcs /\ Th(u).pc \in LaterLevelPcs)
           /\ Th(t).pc = "end" /\ Th(u).pc # "while" => Th(u).pc = "end"
      \* the threads are never more than one iteration apart
      /\ Th(t).it <= Th(u).it + 1

\* C28: in every iteration of CoreApprox all threads read the same values of
\* num_remaining, active_degree_total and level, no thread reading one of
\* them where another thread may still write it; so all threads compute the
\* same threshold and take the same branch and the same decision to leave
\* the loop, every barrier is reached by all threads, and no thread waits
\* at a barrier forever.
C28_ThreadsAgree ==
  /\ []C28_Safe
  /\ \A t \in Threads :
       (peel.pc = "run" /\ Th(t).pc \in BarrierPcs)
         ~> (Th(t).pc \notin BarrierPcs)

\* a thread waits at the barrier that ends an iteration at level >= 1 while
\* the other one is still removing vertices, with vertices left
C28_Witness ==
  /\ peel.pc = "run"
  /\ peel.level >= 1
  /\ \E t, u \in Threads :
       /\ Th(t).pc = "b208"
       /\ Th(u).pc = "rmn"
       /\ Th(t).remaining # <<>>
       /\ Th(t).seen_level = Th(u).seen_level
       /\ Th(t).seen_num = Th(u).seen_num

\* ------------------------------------- CoreIsAdvantageous, the merging scan
\* The scan of Ordering::CoreIsAdvantageous over the sorted adjacency lists
\* of the vertex of largest degree and of its neighbour of largest degree,
\* one step per dereference of the cursor, on every graph of MaxAdv vertices
\* that has an edge.
MaxAdv == 4

\* how many positions past the end of the list the cursor is followed
MaxPast == 2

\* std::ranges::max(g.out_neigh(biggest_id), compare_by_degree): the leftmost
\* of the neighbours of largest degree
biggest_neigh(G, h) ==
  CHOOSE a \in NeighSet(G, h) :
    /\ \A b \in NeighSet(G, h) : out_degree(G, b) <= out_degree(G, a)
    /\ \A b \in NeighSet(G, h) : b < a => out_degree(G, b) < out_degree(G, a)

InitAdv ==
  /\ IdlePipeline
  /\ \E G \in {[n |-> MaxAdv, e |-> E] : E \in SUBSET AllEdges(MaxAdv) \ {{}}} :
       adv = [pc |-> "scan",
              G |-> G,
              biggest_id |-> biggest_id(G),
              biggest_neigh |-> biggest_neigh(G, biggest_id(G)),
              it |-> 0,      \* the cursor, as an offset into out_neigh(biggest_id)
              j |-> 1,       \* position of the range-for in out_neigh(biggest_neigh)
              intersection_size |-> 0,
              past_end |-> FALSE,  \* history: the cursor was dereferenced at
                                   \* or past the end of its list
              ret |-> FALSE]
  /\ comb = Unused
  /\ team = Unused
  /\ peel = Unused
  /\ api = Unused
  /\ driver = Unused

\* the two adjacency lists of the scan
HList == out_neigh(adv.G, adv.biggest_id)

BList == out_neigh(adv.G, adv.biggest_neigh)

\* What *it can yield, compared with w: the element under the cursor, or,
\* with the cursor at or past the end of the list, whatever the memory
\* behind the list holds: a value below w, w itself, or a value above w.
Deref(w) ==
  IF adv.it < Len(HList)
  THEN {HList[adv.it + 1]}
  ELSE {w - 1, w, w + 1}

AdvStep(a) ==
  /\ adv' = a
  /\ UNCHANGED <<pipeline, comb, team, peel, api, driver>>

\* while (*it < w) it++: one test that succeeds
AdvAdvance ==
  /\ adv.pc = "scan"
  /\ adv.j <= Len(BList)
  /\ adv.it < Len(HList) + MaxPast
  /\ \E x \in Deref(BList[adv.j]) :
       /\ x < BList[adv.j]
       /\ AdvStep([adv EXCEPT !.it = @ + 1,
                              !.past_end = @ \/ adv.it >= Len(HList)])

\* the test of the while loop fails; if (w == *it) intersection_size++; and
\* the range-for goes on to the next w
AdvCompare ==
  /\ adv.pc = "scan"
  /\ adv.j <= Len(BList)
  /\ \E x \in Deref(BList[adv.j]) :
       /\ ~(x < BList[adv.j])
       /\ AdvStep([adv EXCEPT
                     !.intersection_size =
                        IF x = BList[adv.j] THEN @ + 1 ELSE @,
                     !.j = @ + 1,
                     !.past_end = @ \/ adv.it >= Len(HList)])

\* the read behind the list faults
AdvFault ==
  /\ adv.pc = "scan"
  /\ adv.j <= Len(BList)
  /\ adv.it >= Len(HList)
  /\ AdvStep([adv EXCEPT !.pc = "abort", !.past_end = TRUE])

\* the range-for is over: the fractions and the result, which is false on
\* every graph of at most 1000000 vertices
AdvReturn ==
  /\ adv.pc = "scan"
  /\ adv.j > Len(BList)
  /\ AdvStep([adv EXCEPT !.pc = "done", !.ret = FALSE])

NextAdv == AdvAdvance \/ AdvCompare \/ AdvFault \/ AdvReturn

SpecAdv == InitAdv /\ [][NextAdv]_vars

\* the common neighbours of the two vertices of the scan
CommonNeighbours ==
  NeighSet(adv.G, adv.biggest_id) \cap NeighSet(adv.G, adv.biggest_neigh)

\* C29: in CoreIsAdvantageous, on every undirected simple graph with at
\* least one edge, the merging scan yields intersection_size equal to the
\* number of common neighbours of the vertex h of largest degree and of its
\* neighbour b of largest degree, and the cursor into the adjacency list of
\* h is never advanced to or dereferenced at a position past the end of the
\* list.
C29_ScanExact ==
  adv.pc # "unused" =>
    /\ ~adv.past_end
    /\ adv.pc # "abort"
    /\ adv.it <= Len(HList)
    /\ adv.pc = "done" => adv.intersection_size = Cardinality(CommonNeighbours)

\* ------------------------------------------- arguments of the base cases
\* the activation records of the recursion in progress
Records == {stack[i] : i \in DOMAIN stack}

\* C30: for max_k >= 1, every query n_choose_k(n, k) issued by either
\* recursion has 0 <= k <= n, and every index of counts[] the sweep writes
\* lies in 1..max_k: at every node of the recursion 1 <= holds <= max_k and
\* num_pivots >= 0, the fixed-k base case issues its query with
\* 0 <= max_k - holds <= num_pivots, and the sweep base case issues its
\* queries with 0 <= p <= pivots and holds + p <= max_k.
C30_ArgumentRanges ==
  pc = "count" =>
    /\ \A f \in Records :
         /\ 1 <= f.clique_size - f.num_pivots
         /\ f.clique_size - f.num_pivots <= CurMaxK
         /\ f.num_pivots >= 0
         /\ \A j \in DOMAIN f.queries :
              /\ f.queries[j][1] = f.num_pivots
              /\ 0 <= f.queries[j][2]
              /\ f.queries[j][2] <= f.queries[j][1]
              /\ f.clique_size - f.num_pivots + f.queries[j][2] <= CurMaxK
         /\ f.written \subseteq 1..CurMaxK
    /\ variant = "sweep" => counts[0] = Zero

\* a fixed-k base case that asked for a binomial with 0 < k < n
C30_Witness ==
  /\ pc = "count"
  /\ variant = "fixed"
  /\ stack # <<>>
  /\ Top.pc = "done"
  /\ Top.queries # <<>>
  /\ 0 < Top.queries[1][2]
  /\ Top.queries[1][2] < Top.queries[1][1]

\* ------------------------------------------------ termination of the recursion
\* The counting of SpecDag as the one thread of the program runs it: a step
\* that can be taken is eventually taken.  This is WF_vars(NextCount) with
\* ENABLED <<NextCount>>_vars written out: a step of NextCount can be taken,
\* and changes the state, exactly as long as the program has not ended.
FairSpecDag ==
  /\ SpecDag
  /\ []<>(pc = "done") \/ []<><<NextCount>>_vars

\* the root of the call in progress has out-degree Len(dag[v]); the nested
\* calls below the root call are the records 2..Len(stack)
C31_Shrinks ==
  pc = "count" /\ stack # <<>> =>
    /\ \A i \in 2..Len(stack) :
         /\ stack[i].entry.P \subseteq stack[i - 1].entry.P
         /\ stack[i].entry.P # stack[i - 1].entry.P
         /\ stack[i - 1].v_r \in stack[i - 1].entry.P
         /\ stack[i - 1].v_r \notin stack[i].entry.P
    /\ Len(stack) - 1 <= Len(dag[v])

\* C31: every call of PivotRecurse, fixed-k and sweep, terminates: each
\* child call runs on a candidate set strictly smaller than its parent's,
\* the induced vertex never being among its own candidates, so the depth of
\* the recursion below a root is at most the root's out-degree, and the
\* contribution of every root is eventually produced.
C31_RecursionTerminates ==
  /\ []C31_Shrinks
  /\ (stack # <<>>) ~> (stack = <<>>)
  /\ <>(pc = "done")

\* a chain of nested calls as long as the out-degree of the root allows
C31_Witness ==
  /\ pc = "count"
  /\ stack # <<>>
  /\ Len(dag[v]) >= 3
  /\ Len(stack) - 1 = Len(dag[v])
  /\ Top.pc = "done"

\* ------------------------------------------------- the SubGraph, reused
\* PivotRecurse of either binary as a function, run to its return on the
\* SubGraph s: the SubGraph it leaves, the count it returns (fixed-k) and
\* the counts it leaves in cs (sweep)
RECURSIVE RunRecurse(_, _, _, _, _, _)
RECURSIVE RunLoop(_, _, _, _, _, _, _, _, _)
RunRecurse(vr, s, mk, clique_size, num_pivots, cs) ==
  LET holds == clique_size - num_pivots
  IN IF vr = "fixed" /\ NumActive(s) + clique_size < mk
     THEN [sg |-> s, count |-> Zero, counts |-> cs]
     ELSE IF NumActive(s) = 0 \/ holds = mk
     THEN [sg |-> s,
           count |-> IF vr = "fixed"
                     THEN n_choose_k(num_pivots, mk - holds) ELSE Zero,
           counts |-> IF vr = "fixed" THEN cs
                      ELSE SweepAdd(cs, holds, num_pivots, mk, 0)]
     ELSE LET pivot_id_r == FindPivot(s)
              s1 == ActiveUnreachableFromPivot(s, pivot_id_r)
              verts_to_induce == last_frame_iter(s1.pivot_non_neighs_)
              r == RunLoop(vr, s1, mk, clique_size, num_pivots, pivot_id_r,
                           verts_to_induce, 1, [count |-> Zero, counts |-> cs])
          IN [sg |-> PopNonNeighbors(r.sg), count |-> r.count,
              counts |-> r.counts]

\* the loop over verts_to_induce, from its position i on
RunLoop(vr, s, mk, clique_size, num_pivots, pivot_id_r, verts_to_induce, i, acc) ==
  IF i > Len(verts_to_induce)
  THEN [sg |-> s, count |-> acc.count, counts |-> acc.counts]
  ELSE LET v_r == verts_to_induce[i]
           is_pivot == (v_r = pivot_id_r)
           s2 == InduceFromSelfMutate(s, v_r, IF is_pivot THEN <<>>
                                              ELSE verts_to_induce)
           r == RunRecurse(vr, s2, mk, clique_size + 1,
                           num_pivots + (IF is_pivot THEN 1 ELSE 0),
                           acc.counts)
       IN RunLoop(vr, UndoSelfMutate(r.sg), mk, clique_size, num_pivots,
                  pivot_id_r, verts_to_induce, i + 1,
                  [count |-> count_add(acc.count, r.count),
                   counts |-> r.counts])

\* SubGraph sg; sg.InduceFromDAG(dag, u): the state a newly constructed
\* SubGraph is in after the call
FreshInduce(u) == InduceFromDAG(EmptySubGraph, dag, u)

\* the root call PivotRecurse(sg, max_k, 1, 0) on a newly constructed
\* SubGraph, with counts all zero
FreshRun(u) ==
  RunRecurse(variant, FreshInduce(u), CurMaxK, 1, 0, ZeroCounts)

\* the contents of the vectors of a SubGraph; the capacity of the backing
\* arrays is not part of them
Contents(s) ==
  [active_ |-> s.active_, active_list_ |-> s.active_list_,
   adj_list_ |-> s.adj_list_, active_tails_ |-> s.active_tails_,
   dropped_verts_ |-> [elems_ |-> s.dropped_verts_.elems_,
                       starts_ |-> s.dropped_verts_.starts_],
   pivot_non_neighs_ |-> [elems_ |-> s.pivot_non_neighs_.elems_,
                          starts_ |-> s.pivot_non_neighs_.starts_]]

\* the counts a thread is left with when it runs the roots handed to it,
\* log[i..], each on a newly constructed SubGraph, starting from cs
RECURSIVE FreshCounts(_, _, _)
FreshCounts(log, i, cs) ==
  IF i > Len(log) THEN cs
  ELSE FreshCounts(log, i + 1,
                   RunRecurse(variant, FreshInduce(log[i].root), CurMaxK,
                              1, 0, cs).counts)

\* the iterations handed to the running thread so far, in order
MyLog == SelectSeq(team.log, LAMBDA e : e.worker = team.tid)

\* the running thread is in the root call of root v, at its entry or at its
\* return
AtRoot(at) ==
  /\ pc = "count"
  /\ team.wpc[team.tid] = "body"
  /\ Len(stack) = 1
  /\ Top.pc = at

\* C32: the state InduceFromDAG(dag, u) leaves a SubGraph in, and the count
\* the recursion that follows returns, do not depend on what the SubGraph
\* held before: a SubGraph that has processed other roots, of larger or of
\* smaller out-degree, holds the contents a newly constructed one holds (its
\* arrays are at least as large), is left with the same contents by the
\* recursion, and yields the same count (fixed-k) and the same additions to
\* counts (sweep).
C32_ReuseIsFresh ==
  /\ AtRoot("entry") =>
       /\ Contents(sg) = Contents(FreshInduce(v))
       /\ sg.pivot_non_neighs_.capacity_
            >= FreshInduce(v).pivot_non_neighs_.capacity_
  /\ AtRoot("done") =>
       /\ Contents(sg) = Contents(FreshRun(v).sg)
       /\ variant = "fixed" => Top.count = FreshRun(v).count
       /\ variant = "sweep" =>
            counts = FreshCounts(MyLog, 1, ZeroCounts)

\* a thread's SubGraph that held a root of larger out-degree whose
\* candidates had an edge and a root of smaller out-degree, and now holds a
\* root between the two
C32_Witness ==
  /\ AtRoot("done")
  /\ \E a, b \in RootsOf(team.tid) :
       /\ a < v /\ b < v
       /\ Len(dag[a]) > Len(dag[v])
       /\ Len(dag[b]) < Len(dag[v])
       /\ \E x, y \in Range(dag[a]) : {x, y} \in g.e

\* ------------------------------------------------------------ the pivot
\* p_r is an element of the active_list_ of s whose tail is the largest, and
\* the elements before it in active_list_ have smaller tails
FirstOfLargestTail(s, p_r) ==
  \E i \in DOMAIN s.active_list_ :
    /\ s.active_list_[i] = p_r
    /\ \A j \in DOMAIN s.active_list_ :
         /\ s.active_tails_[s.active_list_[j]] <= s.active_tails_[p_r]
         /\ j < i => s.active_tails_[s.active_list_[j]] < s.active_tails_[p_r]

\* C33: FindPivot, called on a SubGraph with at least one candidate, returns
\* an element p of active_list with tail[p] >= tail[n] for every n of
\* active_list, the first one in active_list among those of largest tail,
\* and changes nothing in the SubGraph.
C33_FindPivot ==
  [][ApiFindPivot /\ NumActive(api.sg) > 0 =>
       /\ FirstOfLargestTail(api.sg, api'.pivot_id_r)
       /\ api'.sg = api.sg
       /\ api'.pc = "run"]_vars

\* FindPivot has returned a vertex that is not the first of active_list,
\* and a later vertex of active_list, of smaller id, has the same tail
C33_Witness ==
  /\ api.pc = "run"
  /\ api.calls >= 1
  /\ NumActive(api.sg) > 0
  /\ api.pivot_id_r # api.sg.active_list_[1]
  /\ FirstOfLargestTail(api.sg, api.pivot_id_r)
  /\ \E n_r \in Range(api.sg.active_list_) :
       /\ n_r < api.pivot_id_r
       /\ api.sg.active_tails_[n_r] = api.sg.active_tails_[api.pivot_id_r]

====
